---- MODULE Spec2Model ----
(***************************************************************************)
(* Model of the Frndly TV API client (resources/lib/frndly_api.py): the    *)
(* session manager (login / restore / logout), the request gateway        *)
(* (_request with retry and forced re-login) and the channel-list cache.   *)
(*                                                                         *)
(* Python values are modelled as follows:                                  *)
(*   None            -> NONE (a reserved string)                           *)
(*   a missing header-> NONE in hdr_session                                *)
(*   Optional list   -> <<>> for None, <<list>> for a list                 *)
(*   time.time()     -> now, an integer number of seconds                  *)
(***************************************************************************)
EXTENDS Integers, Sequences, FiniteSets, TLC

\* ------------------------------------------------------------------ bounds
\* A wall-clock reading at which the process starts.  Real clocks read about
\* 1.7e9; all that matters is that it lies well beyond FORCE_LOGIN.
Epoch == 100000
\* Longest channel catalogue the upstream returns.
MaxRows == 1

\* --------------------------------------------------------- program constants
FORCE_LOGIN == 60 * 60 * 5
retry_count == 3
CACHE_TTL == 300

NONE == "<None>"

\* Python truthiness of a string-or-None value.
Truthy(v) == v # NONE /\ v # ""

ChannelsUrl == "https://frndlytv-api.revlet.net/service/api/v1/tvguide/channels?skip_tabs=0"
GuideUrl == "https://frndlytv-tvguideapi.revlet.net/service/api/v1/static/tvguide"

\* ------------------------------------------------------------- input domains
\* Sampled clock offsets (seconds after Epoch).  Their differences cover the
\* session boundary (17999, 18000) and the 4 hour / 6 hour cases (14400,
\* 21600).
LongOffsets == {0, 1, 3600, 18000, 21600}
LongTimes == {Epoch + o : o \in LongOffsets}
\* Sampled clock offsets around the age limit of the channel cache: their
\* differences cover 1, 299 and 300 seconds.
ShortOffsets == {0, 299, 300}
ShortTimes == {Epoch + o : o \in ShortOffsets}

Tokens == {"tokA", "tokB"}
Credentials == {<<"alice", NONE>>, <<"alice", "pw1">>, <<"bob", "pw2">>}

\* Upstream messages.
UpstreamMsgs == {NONE, "Channel not available in your region"}

\* Channel rows of the upstream catalogue: an id and metadata.isChannelBanner.
Rows == { [id |-> "c1", isChannelBanner |-> ""],
          [id |-> "c2", isChannelBanner |-> "True"] }
RECURSIVE SeqsUpTo(_, _)
SeqsUpTo(S, n) ==
    IF n = 0 THEN {<<>>}
    ELSE LET shorter == SeqsUpTo(S, n - 1)
         IN  shorter \cup {Append(s, x) : s \in {t \in shorter : Len(t) = n - 1}, x \in S}
Catalogues == SeqsUpTo(Rows, MaxRows)

VARIABLES
    instance,             \* module global _instance is not None
    username, password,   \* self._username, self._password
    cache_path,           \* self._cache_path is set (TRUE) or None (FALSE)
    hdr_session,          \* self._headers['session-id'], NONE when the key is absent
    last_login,           \* self._last_login
    channels_cache,       \* self._channels_cache: <<>> is None, <<list>> a list
    channels_cache_time,  \* self._channels_cache_time
    file,                 \* frndly_session.json in the profile directory
    now,                  \* time.time()
    pc,                   \* "idle", or "request" while a _request call is between attempts
    caller,               \* who called _request: "channels" or "_request" (called directly)
    url,                  \* the url argument of the running _request
    attempt,              \* loop variable of _request
    ev,                   \* what the last step did (observation only)
    wk,                   \* the local variables of each handler thread of the web server
    hist,                 \* the (value, timestamp) pairs that logins and refreshes produced
    arg,                  \* the arguments and upstream answers of one call under test
    res,                  \* the result of that call
    web                   \* the web server's module globals, its sockets and the service

vars == <<instance, username, password, cache_path, hdr_session, last_login,
          channels_cache, channels_cache_time, file, now, pc, caller, url, attempt, ev,
          wk, hist, arg, res, web>>

\* What the single-threaded operations of the client leave alone.
other == <<wk, hist, arg, res, web>>

client == <<username, password, cache_path, hdr_session, last_login,
            channels_cache, channels_cache_time>>

\* ------------------------------------------------------------- the record file
FileAbsent == [kind |-> "absent", session_id |-> NONE, last_login |-> 0]
FileCorrupt == [kind |-> "corrupt", session_id |-> NONE, last_login |-> 0]
FileRecord(s, t) == [kind |-> "record", session_id |-> s, last_login |-> t]

\* -------------------------------------------------------------- observations
\* op: the operation the step belongs to; status: "returned", "raised" or
\* "running"; how: the path taken; err: the message of the exception raised;
\* value: the value returned, wrapped in a tuple; reply, code, message: the
\* upstream reply to the step's GET; gets: the GETs the _request call has
\* issued so far, this one included; url: the url of that call; slept: the
\* step ended in time.sleep(1); login: "ok" or "failed" when the step ran
\* login(), with token_step and signin_step the outcome of its two steps,
\* bearer the bootstrap token and save the outcome of writing the record file;
\* readable: the record file could be opened; upstream: the number of
\* upstream calls the step made; sent: the session-id header the step's GET
\* carried (NONE: no such header); first: the one the first GET of the same
\* call carried.
NoEv == [op |-> "init", status |-> "returned", how |-> "", err |-> "", value |-> <<>>,
         reply |-> "", code |-> 0, message |-> NONE, gets |-> 0, url |-> "",
         slept |-> FALSE, login |-> "none", token_step |-> "", signin_step |-> "",
         bearer |-> NONE, save |-> "", readable |-> TRUE, upstream |-> 0,
         sent |-> NONE, first |-> NONE]

\* No handler thread is running; nothing has been produced; no call is under
\* test.
Workers == {"w1", "w2"}
\* pc: the statement the thread is at; op: the operation it runs or ran last;
\* ok: that operation returned; tok: the token login() obtained; id: the
\* number of the refresh channels() is making; rows: the filtered list it is
\* about to cache; seen: what its reads of the shared fields found so far,
\* each with the writer of the value read; value: what it returned.
NoLocal == [pc |-> "idle", op |-> "", ok |-> FALSE, tok |-> NONE, id |-> 0,
            rows |-> <<>>, seen |-> <<>>, value |-> <<>>]
NoWorkers == [w \in Workers |-> NoLocal]
\* Who wrote what is there now.  A refresh is known by its number (0: none
\* yet), a login by its token (NONE: the constructor or a logout).
\* cache_by, time_by: the refresh that wrote _channels_cache and
\* _channels_cache_time; login_by: the login that wrote _last_login (the one
\* that wrote the token is the token); file_by: the login whose timestamp is
\* in the record file; nfill, nlogout: refreshes and logouts started.
NoHist == [cache_by |-> 0, time_by |-> 0, login_by |-> NONE, file_by |-> NONE,
           nfill |-> 0, nlogout |-> 0, issued |-> {}]
NoArg == [op |-> "none"]
NoRes == [op |-> "none"]
\* webserver.py and service.py before the service starts.  server: _server
\* (0: None, n: the n-th ThreadedHTTPServer made); thread: _server_thread
\* (0: None, n: the thread serving the n-th); alive: the servers whose thread
\* runs; listening: the open listening sockets, <<server, port>>;
\* handler_api: FrndlyRequestHandler.api (0: None, k: the k-th client made);
\* made, clients: servers and clients made so far; service_api: the
\* service's self.api; server_running: its flag; enable_server, credentials,
\* server_port: the add-on settings; fresh_from: the first client built, or
\* yet to be built, from the username and password as they are now; kept:
\* the client the background driver called keep_alive() on last (0: none
\* yet); last: the last call, what it returned, is_running() when it was made
\* or tested, and the server, thread and sockets before it.
NoWeb == [server |-> 0, thread |-> 0, alive |-> {}, listening |-> {}, handler_api |-> 0,
          made |-> 0, clients |-> 0, service_api |-> 0, server_running |-> FALSE,
          enable_server |-> TRUE, credentials |-> TRUE, server_port |-> 8183,
          fresh_from |-> 1, kept |-> 0,
          last |-> [op |-> "none", returned |-> "None", was_running |-> FALSE,
                    server |-> 0, thread |-> 0, alive |-> {}, listening |-> {}]]

\* Everything but the call under test.
InitClient ==
    /\ instance = FALSE
    /\ username = NONE
    /\ password = NONE
    /\ cache_path = FALSE
    /\ hdr_session = NONE
    /\ last_login = 0
    /\ channels_cache = <<>>
    /\ channels_cache_time = 0
    /\ file = FileAbsent
    /\ now = Epoch
    /\ pc = "idle"
    /\ caller = ""
    /\ url = ""
    /\ attempt = 0
    /\ ev = NoEv
    /\ wk = NoWorkers
    /\ hist = NoHist
    /\ res = NoRes
    /\ web = NoWeb

Init == InitClient /\ arg = NoArg

\* ------------------------------------------------------------ session manager
\* FrndlyTV.is_logged_in, evaluated at clock reading t.
is_logged_in_at_most(t) == hdr_session # NONE /\ (t - last_login) <= FORCE_LOGIN
is_logged_in(t) == hdr_session # NONE /\ (t - last_login) < FORCE_LOGIN

\* FrndlyTV._save_session: the record file after saving token tok acquired at t.
\* outcome: "ok", "open_fails" (open() raises, the file is untouched) or
\* "write_fails" (json.dump raises after open(..., 'w') truncated the file).
save_session(path, tok, t, outcome) ==
    IF ~path THEN file
    ELSE IF outcome = "ok" THEN FileRecord(tok, t)
    ELSE IF outcome = "open_fails" THEN file
    ELSE FileCorrupt
SaveOutcomes == {"ok", "open_fails", "write_fails"}

\* FrndlyTV._load_session at clock reading t: what a new client restores from
\* the record file.  readable = FALSE: open() raises.
NothingRestored == [restored |-> FALSE, hdr_session |-> NONE, last_login |-> 0]
load_session_no_ttl(path, t, readable) ==
    IF ~path \/ file.kind = "absent" THEN NothingRestored
    ELSE IF ~readable \/ file.kind = "corrupt" THEN NothingRestored
    ELSE IF Truthy(file.session_id)
         THEN [restored |-> TRUE, hdr_session |-> file.session_id,
               last_login |-> file.last_login]
         ELSE NothingRestored
load_session_token_only(path, t, readable) ==
    IF ~path \/ file.kind = "absent" THEN NothingRestored
    ELSE IF ~readable \/ file.kind = "corrupt" THEN NothingRestored
    ELSE IF Truthy(file.session_id) /\ (t - file.last_login) < FORCE_LOGIN
         THEN [restored |-> TRUE, hdr_session |-> file.session_id, last_login |-> 0]
         ELSE NothingRestored
load_session(path, t, readable) ==
    IF ~path \/ file.kind = "absent" THEN NothingRestored
    ELSE IF ~readable \/ file.kind = "corrupt" THEN NothingRestored
    ELSE IF Truthy(file.session_id) /\ (t - file.last_login) < FORCE_LOGIN
         THEN [restored |-> TRUE, hdr_session |-> file.session_id,
               last_login |-> file.last_login]
         ELSE NothingRestored

\* Inputs of one login(): the outcome of the get/token step and the bootstrap
\* token it returns, the outcome of the sign-in step and the upstream message
\* of a rejection, and the outcome of writing the record file.
LoginInputs ==
    [token_step : {"ok", "fail"}, tok : Tokens,
     signin : {"ok", "rejected", "fail"}, msg : UpstreamMsgs, save : SaveOutcomes]
\* One representative per distinguishable run of login().
LoginRuns ==
    {o \in LoginInputs :
        /\ (o.token_step = "fail" => o.signin = "ok" /\ o.tok = "tokA")
        /\ (o.signin # "rejected" => o.msg = NONE)
        /\ (o.token_step = "fail" \/ o.signin # "ok" \/ ~cache_path => o.save = "ok")
        /\ (o.token_step = "ok" => o.tok # hdr_session)}
NoLogin == [token_step |-> "fail", tok |-> "tokA", signin |-> "ok", msg |-> NONE,
            save |-> "ok"]

\* login() raising: the client and the record file are left alone.
login_raise_dirty(err, token_step, signin_step, bearer, upstream) ==
    [ok |-> FALSE, err |-> err, token_step |-> token_step, signin_step |-> signin_step,
     bearer |-> bearer, upstream |-> upstream, hdr_session |-> IF bearer = NONE THEN hdr_session ELSE bearer,
     last_login |-> last_login, file |-> file]
login_raise(err, token_step, signin_step, bearer, upstream) ==
    [ok |-> FALSE, err |-> err, token_step |-> token_step, signin_step |-> signin_step,
     bearer |-> bearer, upstream |-> upstream,
     hdr_session |-> hdr_session, last_login |-> last_login, file |-> file]

\* login() succeeding with bootstrap token tok at clock reading t.
login_commit_needs_save(tok, t, save) ==
    IF cache_path /\ save # "ok"
    THEN login_raise("Failed to save session", "ok", "ok", tok, 2)
    ELSE [ok |-> TRUE, err |-> "", token_step |-> "ok", signin_step |-> "ok",
          bearer |-> tok, upstream |-> 2,
          hdr_session |-> tok, last_login |-> t,
          file |-> save_session(cache_path, tok, t, save)]
login_commit_stale(tok, t, save) ==
    [ok |-> TRUE, err |-> "", token_step |-> "ok", signin_step |-> "ok",
     bearer |-> tok, upstream |-> 2,
     hdr_session |-> hdr_session, last_login |-> t,
     file |-> save_session(cache_path, tok, t, save)]
login_commit(tok, t, save) ==
    [ok |-> TRUE, err |-> "", token_step |-> "ok", signin_step |-> "ok",
     bearer |-> tok, upstream |-> 2,
     hdr_session |-> tok, last_login |-> t,
     file |-> save_session(cache_path, tok, t, save)]

\* FrndlyTV.login at clock reading t with inputs o.
login(o, t) ==
    IF ~Truthy(username) \/ ~Truthy(password)
    THEN login_raise("Username and password are required", "skipped", "skipped", NONE, 0)
    ELSE IF o.token_step = "fail"
    THEN login_raise("Failed to get session token", "fail", "skipped", NONE, 1)
    ELSE IF o.signin = "fail"
    THEN login_raise("Login request failed", "ok", "fail", o.tok, 2)
    ELSE IF o.signin = "rejected"
    THEN login_raise("Login failed: " \o
                        (IF o.msg = NONE THEN "Unknown login error" ELSE o.msg),
                     "ok", "rejected", o.tok, 2)
    ELSE login_commit(o.tok, t, o.save)

\* The part of a step's observation that describes the login() it ran.
WithLogin(e, L, o) ==
    [e EXCEPT !.login = IF L.ok THEN "ok" ELSE "failed",
              !.token_step = L.token_step, !.signin_step = L.signin_step,
              !.bearer = L.bearer, !.save = IF cache_path THEN o.save ELSE ""]

\* ---------------------------------------------------------------- API gateway
\* Upstream replies to a GET.  kind: "response" (a 'response' payload, here
\* its 'data' rows), "error" ('error' is a mapping with a 'code'),
\* "error_nocode" ('error' is a mapping without 'code'), "no_error" (neither
\* key), "error_not_mapping" ('error' is a string, a list or null, or the body
\* is not a JSON object) and "transport" (requests.get or .json() raises).
Reply(kind, code, message, data) ==
    [kind |-> kind, code |-> code, message |-> message, data |-> data]
Payloads(u) == IF u = ChannelsUrl THEN Catalogues ELSE {<<>>}
Replies(u) ==
    {Reply("response", 0, NONE, d) : d \in Payloads(u)}
    \cup {Reply("error", 404, m, <<>>) : m \in UpstreamMsgs}
    \cup {Reply("error", 401, "Session expired", <<>>)}
    \cup {Reply(k, 0, NONE, <<>>) :
            k \in {"error_nocode", "no_error", "error_not_mapping", "transport"}}

\* What one iteration of the loop of _request does with the reply:
\* "return", "raise404", "login" or "retry".
reply_action_login_on_404(r) ==
    IF r.kind = "response" THEN "return"
    ELSE IF r.kind \in {"error", "error_nocode", "no_error"} THEN "login"
    ELSE "retry"
reply_action_no_relogin(r) ==
    IF r.kind = "response" THEN "return"
    ELSE IF r.kind = "error" /\ r.code = 404 THEN "raise404"
    ELSE "retry"
reply_action(r) ==
    IF r.kind = "response" THEN "return"
    ELSE IF r.kind = "error"
         THEN IF r.code = 404 THEN "raise404" ELSE "login"
    ELSE IF r.kind \in {"error_nocode", "no_error"} THEN "login"
    ELSE "retry"

\* The loop of _request: range(retry_count), and the sleep between attempts.
loop_done_one_more(a) == a + 1 > retry_count
loop_done(a) == a + 1 >= retry_count
should_sleep(a) == a < retry_count - 1

generic_error(u) == "Failed to get response from: " \o u

\* The session-id header of a GET of _request: `headers=self._headers`,
\* evaluated when the GET is made.
request_headers == hdr_session

\* No login() ran: the session as it is.
no_login ==
    [ok |-> TRUE, err |-> "", token_step |-> "", signin_step |-> "", bearer |-> NONE,
     upstream |-> 0, hdr_session |-> hdr_session,
     last_login |-> last_login, file |-> file]

\* One iteration of the loop of _request, attempt a, on reply r; o are the
\* inputs of the login() it may run, t the clock reading.  kind: "return",
\* "raise" (a FrndlyException leaves the loop), "continue" (next attempt) or
\* "exhausted" (the loop ran out and the generic failure is raised).
request_step_login_swallowed(a, u, r, o, t) ==
    LET act == reply_action(r)
        over == IF loop_done(a) THEN "exhausted" ELSE "continue"
        base == [kind |-> over, how |-> over, err |-> "", L |-> no_login,
                 ran_login |-> FALSE, slept |-> FALSE]
    IN  IF act = "return" THEN [base EXCEPT !.kind = "return", !.how = "return"]
        ELSE IF act = "raise404"
        THEN [base EXCEPT !.kind = "raise", !.how = "raise404",
                          !.err = IF r.message = NONE THEN "Unknown error"
                                  ELSE r.message]
        ELSE IF act = "login"
        THEN LET L == login(o, t)
             IN  [base EXCEPT !.L = L, !.ran_login = TRUE,
                              !.slept = ~L.ok /\ should_sleep(a),
                              !.err = IF over = "exhausted"
                                      THEN generic_error(u) ELSE ""]
        ELSE [base EXCEPT !.slept = should_sleep(a),
                          !.err = IF over = "exhausted" THEN generic_error(u) ELSE ""]
request_step(a, u, r, o, t) ==
    LET act == reply_action(r)
        over == IF loop_done(a) THEN "exhausted" ELSE "continue"
        base == [kind |-> over, how |-> over, err |-> "", L |-> no_login,
                 ran_login |-> FALSE, slept |-> FALSE]
    IN  IF act = "return" THEN [base EXCEPT !.kind = "return", !.how = "return"]
        ELSE IF act = "raise404"
        THEN [base EXCEPT !.kind = "raise", !.how = "raise404",
                          !.err = IF r.message = NONE THEN "Unknown error"
                                  ELSE r.message]
        ELSE IF act = "login"
        THEN LET L == login(o, t)
             IN  IF L.ok
                 THEN [base EXCEPT !.L = L, !.ran_login = TRUE,
                                   !.err = IF over = "exhausted"
                                           THEN generic_error(u) ELSE ""]
                 ELSE [base EXCEPT !.kind = "raise", !.how = "login_error",
                                   !.err = L.err, !.L = L, !.ran_login = TRUE]
        ELSE [base EXCEPT !.slept = should_sleep(a),
                          !.err = IF over = "exhausted" THEN generic_error(u) ELSE ""]

\* ---------------------------------------------------------------- guide cache
\* str.lower() on the values metadata.isChannelBanner takes.
Lower(s) == IF s \in {"TRUE", "True"} THEN "true" ELSE s
IsBanner(row) == Lower(row.isChannelBanner) = "true"
NotBanner(row) == ~IsBanner(row)

NoChannelsMsg == "No channels returned. This is likely due to your IP location. Frndly TV may not be available in your region."

\* channels() fast path: the cache is truthy and younger than 300 seconds.
cache_fresh(force_refresh, t) ==
    /\ ~force_refresh
    /\ channels_cache # <<>> /\ channels_cache[1] # <<>>
    /\ (t - channels_cache_time) < CACHE_TTL

\* channels() after _request returned rows whose 'data' is data.
channels_finish(data, t) ==
    IF data = <<>>
    THEN [raised |-> TRUE, err |-> NoChannelsMsg, cache |-> channels_cache,
          cache_time |-> channels_cache_time, value |-> <<>>]
    ELSE LET kept == SelectSeq(data, NotBanner)
         IN  [raised |-> FALSE, err |-> "", cache |-> <<kept>>, cache_time |-> t,
              value |-> <<kept>>]

\* The clock moves on to a later sampled instant of T.  Time passes at any
\* point, also during a _request call (its timeouts and its sleeps).
Advance(T) ==
    /\ \E t \in T : t > now /\ now' = t
    /\ ev' = [NoEv EXCEPT !.op = "advance"]
    /\ UNCHANGED <<instance, client, file, pc, caller, url, attempt>>
    /\ UNCHANGED other
AdvanceLong == Advance(LongTimes)
AdvanceShort == Advance(ShortTimes)

Idle == instance /\ pc = "idle"
control == <<pc, caller, url, attempt>>

\* FrndlyTV.__init__, then _load_session: a new client over the profile
\* directory.
Construct(c, cp, readable) ==
    LET R == load_session(cp, now, readable)
    IN  /\ username' = c[1]
        /\ password' = c[2]
        /\ cache_path' = cp
        /\ hdr_session' = R.hdr_session
        /\ last_login' = R.last_login
        /\ channels_cache' = <<>>
        /\ channels_cache_time' = 0
        /\ ev' = [NoEv EXCEPT !.op = "construct", !.readable = readable,
                              !.how = IF R.restored THEN "restored" ELSE "fresh"]

\* get_api(username, password, cache_path): creates the singleton.
GetApiCreate ==
    /\ ~instance /\ pc = "idle"
    /\ \E c \in Credentials, cp \in BOOLEAN, readable \in BOOLEAN :
         Construct(c, cp, readable)
    /\ instance' = TRUE
    /\ UNCHANGED <<file, now, control>>
    /\ UNCHANGED other

\* FrndlyTV.set_credentials.
set_credentials(c) ==
    /\ username' = c[1]
    /\ password' = c[2]
    /\ UNCHANGED <<cache_path, hdr_session, last_login, channels_cache,
                   channels_cache_time>>

\* get_api(username, password, ...) on the existing singleton: replaces the
\* credentials when both are given, else returns the client as it is.
GetApiExisting ==
    /\ Idle
    /\ \E c \in Credentials :
         /\ IF Truthy(c[1]) /\ Truthy(c[2]) THEN set_credentials(c)
            ELSE UNCHANGED client
         /\ ev' = [NoEv EXCEPT !.op = "get_api",
                               !.how = IF ~(Truthy(c[1]) /\ Truthy(c[2])) THEN "kept"
                                       ELSE IF <<username, password>> = c THEN "same"
                                       ELSE "replaced"]
    /\ UNCHANGED <<instance, file, now, control>>
    /\ UNCHANGED other

\* A direct call of set_credentials.
SetCredentials ==
    /\ Idle
    /\ \E c \in Credentials :
         /\ set_credentials(c)
         /\ ev' = [NoEv EXCEPT !.op = "set_credentials",
                               !.how = IF <<username, password>> = c THEN "same"
                                       ELSE "replaced"]
    /\ UNCHANGED <<instance, file, now, control>>
    /\ UNCHANGED other

\* A direct call of login().
Login ==
    /\ Idle
    /\ \E o \in LoginRuns :
         LET L == login(o, now)
         IN  /\ hdr_session' = L.hdr_session
             /\ last_login' = L.last_login
             /\ file' = L.file
             /\ ev' = WithLogin([NoEv EXCEPT !.op = "login",
                                    !.status = IF L.ok THEN "returned" ELSE "raised",
                                    !.err = L.err, !.upstream = L.upstream], L, o)
    /\ UNCHANGED <<instance, username, password, cache_path, channels_cache,
                   channels_cache_time, now, control>>
    /\ UNCHANGED other

\* FrndlyTV.logout.  removed = FALSE: os.remove raises and is swallowed.
logout_file(removed) ==
    IF cache_path /\ file.kind # "absent" /\ removed THEN FileAbsent ELSE file
Logout ==
    /\ Idle
    /\ \E removed \in BOOLEAN :
         /\ file' = logout_file(removed)
         /\ ev' = [NoEv EXCEPT !.op = "logout",
                               !.how = IF file' = FileAbsent THEN "no_file" ELSE "file_left"]
    /\ hdr_session' = NONE
    /\ last_login' = 0
    /\ channels_cache' = <<>>
    /\ UNCHANGED <<instance, username, password, cache_path, channels_cache_time,
                   now, control>>
    /\ UNCHANGED other

\* A call of is_logged_in().
IsLoggedIn ==
    /\ Idle
    /\ ev' = [NoEv EXCEPT !.op = "is_logged_in", !.value = <<is_logged_in(now)>>]
    /\ UNCHANGED <<instance, client, file, now, control>>
    /\ UNCHANGED other

\* channels(force_refresh): the cached list, or the start of the _request.
Channels ==
    /\ Idle
    /\ \E force_refresh \in BOOLEAN :
         IF cache_fresh(force_refresh, now)
         THEN /\ ev' = [NoEv EXCEPT !.op = "channels", !.how = "cached",
                                    !.value = channels_cache]
              /\ UNCHANGED control
         ELSE /\ pc' = "request"
              /\ caller' = "channels"
              /\ url' = ChannelsUrl
              /\ attempt' = 0
              /\ ev' = [NoEv EXCEPT !.op = "channels", !.status = "running",
                                    !.how = IF force_refresh THEN "forced" ELSE "miss"]
    /\ UNCHANGED <<instance, client, file, now>>
    /\ UNCHANGED other

\* _request called by another operation of the client (guide, stream).
Request ==
    /\ Idle
    /\ pc' = "request"
    /\ caller' = "_request"
    /\ url' = GuideUrl
    /\ attempt' = 0
    /\ ev' = [NoEv EXCEPT !.op = "_request", !.status = "running"]
    /\ UNCHANGED <<instance, client, file, now>>
    /\ UNCHANGED other

\* One iteration of the loop of _request (one GET and what follows it), up
\* to the return or the raise that ends the call and the operation that made
\* it: channels(), also when keep_alive() called it, caches the rows.
RequestLoop ==
    /\ instance /\ pc = "request"
    /\ \E r \in Replies(url), o \in LoginRuns :
         /\ reply_action(r) # "login" => o = NoLogin
         /\ LET s == request_step(attempt, url, r, o, now)
                F == channels_finish(r.data, now)
                fin == caller \in {"channels", "keep_alive", "GET /keep_alive"}
                       /\ s.kind = "return"
                e0 == [NoEv EXCEPT !.op = caller, !.reply = r.kind, !.code = r.code,
                                   !.message = r.message, !.gets = attempt + 1,
                                   !.url = url, !.slept = s.slept,
                                   !.upstream = 1 + s.L.upstream, !.how = s.how,
                                   !.err = s.err, !.sent = request_headers,
                                   !.first = IF attempt = 0 THEN request_headers
                                             ELSE ev.first]
                e1 == IF s.ran_login THEN WithLogin(e0, s.L, o) ELSE e0
            IN  /\ hdr_session' = s.L.hdr_session
                /\ last_login' = s.L.last_login
                /\ file' = s.L.file
                /\ channels_cache' = IF fin THEN F.cache ELSE channels_cache
                /\ channels_cache_time' = IF fin THEN F.cache_time ELSE channels_cache_time
                /\ IF s.kind = "continue"
                   THEN /\ attempt' = attempt + 1
                        /\ ev' = [e1 EXCEPT !.status = "running"]
                        /\ UNCHANGED <<pc, caller, url>>
                   ELSE /\ attempt' = 0
                        /\ pc' = "idle"
                        /\ caller' = ""
                        /\ url' = ""
                        /\ ev' = IF s.kind = "return"
                                 THEN IF fin
                                      THEN [e1 EXCEPT
                                              !.status = IF F.raised THEN "raised"
                                                         ELSE "returned",
                                              !.how = IF F.raised THEN "no_channels"
                                                      ELSE "return",
                                              !.err = F.err, !.value = F.value]
                                      ELSE [e1 EXCEPT !.status = "returned",
                                                      !.value = <<r.data>>]
                                 ELSE [e1 EXCEPT !.status = "raised"]
    /\ UNCHANGED <<instance, username, password, cache_path, now>>
\* The same when no request handler of the web server waits for the call.
Attempt ==
    /\ caller # "GET /keep_alive"
    /\ RequestLoop
    /\ UNCHANGED other

\* The process ends; the next one starts with _instance = None.  The record
\* file and the clock outlive it.
Restart ==
    /\ Idle
    /\ instance' = FALSE
    /\ username' = NONE
    /\ password' = NONE
    /\ cache_path' = FALSE
    /\ hdr_session' = NONE
    /\ last_login' = 0
    /\ channels_cache' = <<>>
    /\ channels_cache_time' = 0
    /\ ev' = [NoEv EXCEPT !.op = "restart"]
    /\ UNCHANGED <<file, now, control>>
    /\ UNCHANGED other

\* The record file is edited or damaged from outside the client: its token
\* blanked, its timestamp dropped (read back as the default 0), or its content
\* made unparseable.
FileEdited ==
    /\ pc = "idle"
    /\ file.kind = "record"
    /\ \E f \in {FileRecord("", file.last_login), FileRecord(file.session_id, 0),
                 FileCorrupt} :
         /\ f # file
         /\ file' = f
    /\ ev' = [NoEv EXCEPT !.op = "file_edited"]
    /\ UNCHANGED <<instance, client, now, control>>
    /\ UNCHANGED other

\* ------------------------------------------------------- handler threads
\* ThreadedHTTPServer runs every connection's handler on a thread of its own,
\* and all handlers share FrndlyRequestHandler.api.  The client takes no
\* lock, so the threads interleave between any two statements; a step below
\* is one read or one write of a shared field.
MaxFills == 2
MaxLogouts == 1
\* The clock readings of the threads lie within MaxTicks seconds.
MaxTicks == 1
\* What the channel-list endpoint may answer to a refresh.
ThreadCatalogues == { <<[id |-> "c1", isChannelBanner |-> ""]>>,
                      <<[id |-> "c1", isChannelBanner |-> ""],
                        [id |-> "c3", isChannelBanner |-> ""]>> }

shared == <<instance, username, password, cache_path, pc, caller, url, attempt,
            ev, arg, res, web>>
Free(w) == instance /\ wk[w].pc = "idle"
Goto(w, l) == [wk EXCEPT ![w].pc = l]
Start(w, o, l) == [wk EXCEPT ![w] = [NoLocal EXCEPT !.pc = l, !.op = o]]

\* service.py: the service builds the client from the add-on settings (both
\* credentials set, the profile directory as cache path) and starts the
\* server with it.
ServiceStart ==
    /\ ~instance /\ pc = "idle"
    /\ Construct(<<"alice", "pw1">>, TRUE, TRUE)
    /\ instance' = TRUE
    /\ UNCHANGED <<file, now, control, other>>

\* Time passes between any two statements.
Tick ==
    /\ now < Epoch + MaxTicks
    /\ now' = now + 1
    /\ UNCHANGED <<instance, client, file, control, ev, other>>

\* channels(), line 693: `not force_refresh and self._channels_cache`.
ChannelsTest(w) ==
    /\ Free(w)
    /\ \E force_refresh \in BOOLEAN :
         IF ~force_refresh /\ channels_cache # <<>> /\ channels_cache[1] # <<>>
         THEN /\ wk' = [Start(w, "channels", "ch_age") EXCEPT
                          ![w].seen = <<channels_cache, hist.cache_by>>]
              /\ hist' = hist
         ELSE /\ hist.nfill < MaxFills
              /\ wk' = [Start(w, "channels", "ch_fetch") EXCEPT ![w].id = hist.nfill + 1]
              /\ hist' = [hist EXCEPT !.nfill = @ + 1]
    /\ UNCHANGED <<shared, hdr_session, last_login, channels_cache,
                   channels_cache_time, file, now>>

\* line 693, `(time.time() - self._channels_cache_time) < 300`.
ChannelsAge(w) ==
    /\ instance /\ wk[w].pc = "ch_age"
    /\ IF (now - channels_cache_time) < CACHE_TTL
       THEN /\ wk' = [wk EXCEPT ![w].pc = "ch_return",
                                ![w].seen = @ \o <<channels_cache_time, hist.time_by>>]
            /\ hist' = hist
       ELSE /\ hist.nfill < MaxFills
            /\ wk' = [wk EXCEPT ![w].pc = "ch_fetch", ![w].id = hist.nfill + 1,
                                ![w].seen = @ \o <<channels_cache_time, hist.time_by>>]
            /\ hist' = [hist EXCEPT !.nfill = @ + 1]
    /\ UNCHANGED <<shared, hdr_session, last_login, channels_cache,
                   channels_cache_time, file, now>>

\* line 694, `return self._channels_cache`.
ChannelsReturn(w) ==
    /\ instance /\ wk[w].pc = "ch_return"
    /\ wk' = [wk EXCEPT ![w].pc = "idle", ![w].ok = TRUE, ![w].value = channels_cache]
    /\ UNCHANGED <<shared, hdr_session, last_login, channels_cache,
                   channels_cache_time, file, now, hist>>

\* lines 696-708: the upstream answers (or the call raises), the rows are
\* filtered.
ChannelsFetch(w) ==
    /\ instance /\ wk[w].pc = "ch_fetch"
    /\ \/ wk' = Goto(w, "idle")
       \/ \E data \in ThreadCatalogues :
            wk' = [wk EXCEPT ![w].pc = "ch_store_value",
                             ![w].rows = channels_finish(data, now).cache]
    /\ UNCHANGED <<shared, hdr_session, last_login, channels_cache,
                   channels_cache_time, file, now, hist>>

\* line 710, `self._channels_cache = channels`.
ChannelsStoreValue(w) ==
    /\ instance /\ wk[w].pc = "ch_store_value"
    /\ channels_cache' = wk[w].rows
    /\ hist' = [hist EXCEPT !.cache_by = wk[w].id]
    /\ wk' = Goto(w, "ch_store_time")
    /\ UNCHANGED <<shared, hdr_session, last_login, channels_cache_time, file, now>>

\* lines 711-713, `self._channels_cache_time = time.time()`, `return channels`.
ChannelsStoreTime(w) ==
    /\ instance /\ wk[w].pc = "ch_store_time"
    /\ channels_cache_time' = now
    /\ hist' = [hist EXCEPT !.time_by = wk[w].id]
    /\ wk' = [wk EXCEPT ![w].pc = "idle", ![w].ok = TRUE, ![w].value = wk[w].rows]
    /\ UNCHANGED <<shared, hdr_session, last_login, channels_cache, file, now>>

\* login(), lines 745-802: the two-step handshake, made with local variables
\* only.  It raises, or leaves the new token in the local `headers`; the
\* upstream issues every token once.
LoginHandshake(w) ==
    /\ Free(w)
    /\ \/ wk' = Start(w, "login", "idle") /\ hist' = hist
       \/ \E tok \in Tokens \ hist.issued :
            /\ wk' = [Start(w, "login", "lg_store_time") EXCEPT ![w].tok = tok]
            /\ hist' = [hist EXCEPT !.issued = @ \cup {tok}]
    /\ UNCHANGED <<shared, hdr_session, last_login, channels_cache,
                   channels_cache_time, file, now>>

\* line 805, `self._last_login = time.time()`.
LoginStoreTime(w) ==
    /\ instance /\ wk[w].pc = "lg_store_time"
    /\ last_login' = now
    /\ hist' = [hist EXCEPT !.login_by = wk[w].tok]
    /\ wk' = Goto(w, "lg_store_headers")
    /\ UNCHANGED <<shared, hdr_session, channels_cache, channels_cache_time, file, now>>

\* line 806, `self._headers = headers`.
LoginStoreHeaders(w) ==
    /\ instance /\ wk[w].pc = "lg_store_headers"
    /\ hdr_session' = wk[w].tok
    /\ wk' = Goto(w, "sv_read_token")
    /\ UNCHANGED <<shared, last_login, channels_cache, channels_cache_time, file, now,
                   hist>>

\* _save_session(), line 452, `self._headers.get('session-id')`.
SaveReadToken(w) ==
    /\ instance /\ wk[w].pc = "sv_read_token"
    /\ wk' = [wk EXCEPT ![w].pc = "sv_read_time", ![w].seen = <<hdr_session>>]
    /\ UNCHANGED <<shared, hdr_session, last_login, channels_cache,
                   channels_cache_time, file, now, hist>>

\* line 453, `self._last_login`.
SaveReadTime(w) ==
    /\ instance /\ wk[w].pc = "sv_read_time"
    /\ wk' = [wk EXCEPT ![w].pc = "sv_write",
                        ![w].seen = @ \o <<last_login, hist.login_by>>]
    /\ UNCHANGED <<shared, hdr_session, last_login, channels_cache,
                   channels_cache_time, file, now, hist>>

\* lines 454-455 (the record is written), then lines 807-809: login returns.
SaveWrite(w) ==
    /\ instance /\ wk[w].pc = "sv_write"
    /\ file' = save_session(cache_path, wk[w].seen[1], wk[w].seen[2], "ok")
    /\ hist' = [hist EXCEPT !.file_by = wk[w].seen[3]]
    /\ wk' = [wk EXCEPT ![w].pc = "idle", ![w].ok = TRUE]
    /\ UNCHANGED <<shared, hdr_session, last_login, channels_cache,
                   channels_cache_time, now>>

\* logout(), lines 817-818: the token leaves the headers.
LogoutDropToken(w) ==
    /\ Free(w)
    /\ hist.nlogout < MaxLogouts
    /\ hdr_session' = NONE
    /\ hist' = [hist EXCEPT !.nlogout = @ + 1]
    /\ wk' = Start(w, "logout", "lo_store_time")
    /\ UNCHANGED <<shared, last_login, channels_cache, channels_cache_time, file, now>>

\* line 819, `self._last_login = 0`.
LogoutStoreTime(w) ==
    /\ instance /\ wk[w].pc = "lo_store_time"
    /\ last_login' = 0
    /\ hist' = [hist EXCEPT !.login_by = NONE]
    /\ wk' = Goto(w, "lo_drop_cache")
    /\ UNCHANGED <<shared, hdr_session, channels_cache, channels_cache_time, file, now>>

\* line 820, `self._channels_cache = None`.
LogoutDropCache(w) ==
    /\ instance /\ wk[w].pc = "lo_drop_cache"
    /\ channels_cache' = <<>>
    /\ hist' = [hist EXCEPT !.cache_by = 0]
    /\ wk' = Goto(w, "lo_remove")
    /\ UNCHANGED <<shared, hdr_session, last_login, channels_cache_time, file, now>>

\* lines 822-827: the record file is removed.
LogoutRemoveFile(w) ==
    /\ instance /\ wk[w].pc = "lo_remove"
    /\ file' = logout_file(TRUE)
    /\ hist' = [hist EXCEPT !.file_by = NONE]
    /\ wk' = [wk EXCEPT ![w].pc = "idle", ![w].ok = TRUE]
    /\ UNCHANGED <<shared, hdr_session, last_login, channels_cache,
                   channels_cache_time, now>>

\* is_logged_in(), line 813: `'session-id' in self._headers`.
LoggedInTest(w) ==
    /\ Free(w)
    /\ wk' = IF hdr_session # NONE
             THEN [Start(w, "is_logged_in", "li_age") EXCEPT ![w].seen = <<hdr_session>>]
             ELSE [Start(w, "is_logged_in", "idle") EXCEPT
                     ![w].ok = TRUE, ![w].seen = <<hdr_session>>, ![w].value = <<FALSE>>]
    /\ UNCHANGED <<shared, hdr_session, last_login, channels_cache,
                   channels_cache_time, file, now, hist>>

\* line 813: `(time.time() - self._last_login) < FORCE_LOGIN`.
LoggedInAge(w) ==
    /\ instance /\ wk[w].pc = "li_age"
    /\ wk' = [wk EXCEPT ![w].pc = "idle", ![w].ok = TRUE,
                        ![w].seen = @ \o <<last_login, hist.login_by>>,
                        ![w].value = <<(now - last_login) < FORCE_LOGIN>>]
    /\ UNCHANGED <<shared, hdr_session, last_login, channels_cache,
                   channels_cache_time, file, now, hist>>

\* The handler threads of the web server over one client.
NextThreads ==
    \/ ServiceStart
    \/ Tick
    \/ \E w \in Workers : ChannelsTest(w)
    \/ \E w \in Workers : ChannelsAge(w)
    \/ \E w \in Workers : ChannelsReturn(w)
    \/ \E w \in Workers : ChannelsFetch(w)
    \/ \E w \in Workers : ChannelsStoreValue(w)
    \/ \E w \in Workers : ChannelsStoreTime(w)
    \/ \E w \in Workers : LoginHandshake(w)
    \/ \E w \in Workers : LoginStoreTime(w)
    \/ \E w \in Workers : LoginStoreHeaders(w)
    \/ \E w \in Workers : SaveReadToken(w)
    \/ \E w \in Workers : SaveReadTime(w)
    \/ \E w \in Workers : SaveWrite(w)
    \/ \E w \in Workers : LogoutDropToken(w)
    \/ \E w \in Workers : LogoutStoreTime(w)
    \/ \E w \in Workers : LogoutDropCache(w)
    \/ \E w \in Workers : LogoutRemoveFile(w)
    \/ \E w \in Workers : LoggedInTest(w)
    \/ \E w \in Workers : LoggedInAge(w)

SpecThreads == Init /\ [][NextThreads]_vars

\* ------------------------------------------------------- stream resolution
\* Most variants a stream descriptor offers.
MaxStreams == 2

StreamUrl == "https://frndlytv-api.revlet.net/service/api/v1/page/stream"
\* License-key strings, in ascending order of Python's string comparison.
LicenseKeys == <<"", "k1">>
KeyOrder(k) == CHOOSE i \in 1..Len(LicenseKeys) : LicenseKeys[i] = k
\* Values of 'streamType'; NONE: the key is missing.
StreamTypes == {NONE, "dash", "widevine", " WideVine "}
\* A variant: 'url', keys['licenseKey'] (NONE: the key is missing) and
\* 'streamType'.
Variants == [url : {"https://cdn/a.m3u8?t=1", "https://cdn/b.m3u8?t=1"},
             licenseKey : {NONE, "", "k1"},
             streamType : StreamTypes]
\* A number the upstream left out or sent as something int() rejects.
MISSING == -1
\* A JSON null where the code expects a text.
NULL == "<null>"
\* A descriptor: 'streams', playerSettings[0]['value'] (milliseconds, or
\* MISSING) and sessionInfo['streamPollKey'].
Descriptors(n) == [streams : SeqsUpTo(Variants, n), start : {MISSING, 5500},
                   poll_key : {NONE, "pk"}]
\* What _request gives the caller: the 'response' object, or an exception.
Returned(data) == [ok |-> TRUE, err |-> "", data |-> data]
Raised(err) == [ok |-> FALSE, err |-> err, data |-> <<>>]

\* x['keys'].get('licenseKey', '')
license_key(v) == IF v.licenseKey = NONE THEN "" ELSE v.licenseKey
\* One step of sorted(): v goes behind every element whose key is not
\* greater, so equal keys keep the order they were offered in.
insert_before_equal(v, s) ==
    LET k == Cardinality({i \in 1..Len(s) :
                            KeyOrder(license_key(s[i])) < KeyOrder(license_key(v))})
    IN  SubSeq(s, 1, k) \o <<v>> \o SubSeq(s, k + 1, Len(s))
insert(v, s) ==
    LET k == Cardinality({i \in 1..Len(s) :
                            KeyOrder(license_key(s[i])) <= KeyOrder(license_key(v))})
    IN  SubSeq(s, 1, k) \o <<v>> \o SubSeq(s, k + 1, Len(s))
RECURSIVE sorted(_)
sorted(s) ==
    IF s = <<>> THEN <<>>
    ELSE insert(s[Len(s)], sorted(SubSeq(s, 1, Len(s) - 1)))

\* stream.get('streamType', '')
stream_type(v) == IF v.streamType = NONE THEN "" ELSE v.streamType
\* str.lower().strip() on the values of StreamTypes.
lower_strip(t) == IF t \in {"widevine", " WideVine "} THEN "widevine" ELSE t
\* lines 540-544: the start offset, in seconds, appended to the url.
start_suffix(d) ==
    IF d.start = MISSING THEN ""
    ELSE LET start_time == d.start \div 1000
         IN  "&start=" \o ToString(start_time) \o "&startTime=" \o ToString(start_time)
\* lines 551-561: the playback-ended notification.  post: "ok", or "fails"
\* when requests.post raises.  posted: the POST was issued; raised: an
\* exception leaves the block.
end_session_raising(d, post) ==
    [posted |-> d.poll_key # NONE, raised |-> d.poll_key # NONE /\ post = "fails"]
end_session(d, post) == [posted |-> d.poll_key # NONE, raised |-> FALSE]

NoStreamMsg(path) == "Unable to find stream for: " \o path
NoLowerMsg == "'NoneType' object has no attribute 'lower'"
DrmMsg(t) == "Unsupported DRM stream type: " \o t

\* FrndlyTV._get_play_url(path), given what _request and requests.post do.
get_play_url(path, reply, post) ==
    LET none == [raised |-> TRUE, err |-> "", url |-> NONE, posted |-> FALSE,
                 drm |-> FALSE, path |-> path, exc |-> "FrndlyException"]
    IN  IF ~reply.ok THEN [none EXCEPT !.err = reply.err]
        ELSE IF reply.data.streams = <<>>
        THEN [none EXCEPT !.err = NoStreamMsg(path)]
        ELSE LET stream == sorted(reply.data.streams)[1]
                 playurl == stream.url \o start_suffix(reply.data)
                 N == end_session(reply.data, post)
             IN  IF stream_type(stream) = NULL
                 THEN [none EXCEPT !.err = NoLowerMsg, !.exc = "AttributeError"]
                 ELSE IF lower_strip(stream_type(stream)) \in {"widevine"}
                 THEN [none EXCEPT !.err = DrmMsg(stream_type(stream)), !.drm = TRUE]
                 ELSE IF N.raised
                 THEN [none EXCEPT !.err = "POST failed", !.posted = N.posted,
                                   !.exc = "ConnectionError"]
                 ELSE [none EXCEPT !.raised = FALSE, !.url = playurl,
                                   !.posted = N.posted, !.exc = NONE]

\* The failures of _request a caller can meet.
RequestErrors(u) == {"Session expired", "Username and password are required",
                     generic_error(u)}
PostOutcomes == {"ok", "fails"}
\* Calls of _get_play_url under test.
ResolveArgs ==
    { [op |-> "_get_play_url", path |-> "channel/live/hallmark", reply |-> r, post |-> po] :
        r \in {Returned(d) : d \in Descriptors(MaxStreams)}
              \cup {Raised(e) : e \in RequestErrors(StreamUrl)},
        po \in PostOutcomes }

\* A call under test is made once.
Called == res # NoRes
rest == <<instance, client, file, now, control, ev, wk, hist, arg, web>>

GetPlayUrl ==
    /\ ~Called /\ arg.op = "_get_play_url"
    /\ res' = [op |-> "_get_play_url", out |-> get_play_url(arg.path, arg.reply, arg.post)]
    /\ UNCHANGED rest

\* str.isdigit() and str.rsplit('-', 1) on the slugs of Slugs.
Slugs == {"12", "hallmark-12", "hallmark"}
isdigit(slug) == slug = "12"
rsplit(slug) == IF slug = "hallmark-12" THEN <<"hallmark", "12">> ELSE <<slug>>
\* webserver: path.split('/')[-1].split('.')[0] on the request paths of
\* PlayPaths.
PlayPaths == {"/play/12.m3u8", "/play/hallmark-12.m3u8", "/play/hallmark"}
slug_of(path) ==
    IF path = "/play/12.m3u8" THEN "12"
    ELSE IF path = "/play/hallmark-12.m3u8" THEN "hallmark-12"
    ELSE "hallmark"

\* Rows of guide([channel_id]) for the channel: the markers' startTime and
\* endTime values (milliseconds, or MISSING) and
\* target['path'] (NONE: missing).
GuideRow(a, b, path) == [startTime |-> a, endTime |-> b, path |-> path]
LiveRows == { <<>>,
              <<GuideRow(MISSING, (Epoch + 60) * 1000, "channel/live/12/now")>>,
              <<GuideRow((Epoch - 120) * 1000, (Epoch - 60) * 1000, "channel/live/12/past")>>,
              <<GuideRow((Epoch - 60) * 1000, (Epoch + 60) * 1000, "channel/live/12/now")>> }
NoLiveMsg(channel_id) == "Unable to find live stream for channel: " \o channel_id

\* FrndlyTV._channel_path(channel_id) at clock reading cur, rows being
\* guide([channel_id])[channel_id].
RECURSIVE channel_path(_, _, _)
channel_path(channel_id, rows, cur) ==
    IF rows = <<>> THEN [raised |-> TRUE, err |-> NoLiveMsg(channel_id), path |-> NONE]
    ELSE LET row == Head(rows)
         IN  IF /\ row.startTime # MISSING /\ row.endTime # MISSING
                /\ row.startTime <= cur * 1000 /\ cur * 1000 <= row.endTime
                /\ row.path # NONE
             THEN [raised |-> FALSE, err |-> "", path |-> row.path]
             ELSE channel_path(channel_id, Tail(rows), cur)

\* lines 580-582: play by channel id, after the resolutions in `calls`.
play_by_id(channel_id, calls, a, cur) ==
    LET P == channel_path(channel_id, a.rows, cur)
        r == get_play_url(P.path, a.second, a.post)
    IN  IF P.raised
        THEN [raised |-> TRUE, err |-> P.err, url |-> NONE, calls |-> calls, guide |-> 1,
              exc |-> "FrndlyException"]
        ELSE [raised |-> r.raised, err |-> r.err, url |-> r.url,
              calls |-> Append(calls, r), guide |-> 1, exc |-> r.exc]

\* FrndlyTV.play(slug).  a.first, a.second: what _request gives the first and
\* the second resolution; a.rows: the guide rows of the channel.
play(slug, a, cur) ==
    IF isdigit(slug) THEN play_by_id(slug, <<>>, a, cur)
    ELSE LET parts == rsplit(slug)
         IN  IF Len(parts) = 2
             THEN LET r == get_play_url("channel/live/" \o parts[1], a.first, a.post)
                  IN  IF ~r.raised
                      THEN [raised |-> FALSE, err |-> "", url |-> r.url, calls |-> <<r>>,
                            guide |-> 0, exc |-> NONE]
                      ELSE play_by_id(parts[2], <<r>>, a, cur)
             ELSE play_by_id(slug, <<>>, a, cur)

\* FrndlyRequestHandler._handle_play for a GET of request path `path`.
\* code 0 and escaped: no response is sent, the exception `err` leaves the
\* handler.
handle_play(api, path, a, cur) ==
    IF ~api
    THEN [code |-> 500, body |-> "Error: API not initialized", location |-> NONE,
          calls |-> <<>>, escaped |-> FALSE, err |-> ""]
    ELSE LET R == play(slug_of(path), a, cur)
         IN  IF R.raised /\ R.exc = "FrndlyException"
             THEN [code |-> 500, body |-> "Error: " \o R.err, location |-> NONE,
                   calls |-> R.calls, escaped |-> FALSE, err |-> ""]
             ELSE IF R.raised
             THEN [code |-> 0, body |-> "", location |-> NONE,
                   calls |-> R.calls, escaped |-> TRUE, err |-> R.err]
             ELSE [code |-> 302, body |-> "", location |-> R.url, calls |-> R.calls,
                   escaped |-> FALSE, err |-> ""]

\* Descriptors the calls of play are tried with: at most one variant, no
\* start offset, no poll key; one has a null 'streamType'.
NullTyped ==
    [streams |-> <<[url |-> "https://cdn/a.m3u8?t=1", licenseKey |-> NONE,
                    streamType |-> NULL]>>,
     start |-> MISSING, poll_key |-> NONE]
PlayReplies ==
    {Returned(d) : d \in {x \in Descriptors(1) :
                            /\ x.start = MISSING /\ x.poll_key = NONE
                            /\ \A i \in 1..Len(x.streams) : x.streams[i].licenseKey = NONE}}
    \cup {Returned(NullTyped), Raised(generic_error(StreamUrl))}
Upstreams == [first : PlayReplies, second : PlayReplies, rows : LiveRows, post : {"ok"}]
PlayArgs == { [op |-> "play", slug |-> sl, up |-> a] : sl \in Slugs, a \in Upstreams }
HandlePlayArgs ==
    { [op |-> "_handle_play", api |-> api, path |-> pa, up |-> a] :
        api \in BOOLEAN, pa \in PlayPaths, a \in Upstreams }

Play ==
    /\ ~Called /\ arg.op = "play"
    /\ res' = [op |-> "play", out |-> play(arg.slug, arg.up, now)]
    /\ UNCHANGED rest

HandlePlay ==
    /\ ~Called /\ arg.op = "_handle_play"
    /\ res' = [op |-> "_handle_play", out |-> handle_play(arg.api, arg.path, arg.up, now)]
    /\ UNCHANGED rest

\* Stream resolution and playback, one call per behaviour.
InitPlay == InitClient /\ arg \in ResolveArgs \cup PlayArgs \cup HandlePlayArgs
NextPlay ==
    \/ GetPlayUrl
    \/ Play
    \/ HandlePlay
SpecPlay == InitPlay /\ [][NextPlay]_vars

\* ------------------------------------------------------------------- guide
\* Most days a guide call spans; most programme records of one channel.
MaxDays == 2
MaxPrograms == 3
DAY == 86400

\* Programme records of the guide.  startTime, endTime: the markers' values
\* (milliseconds; MISSING: int() raises on them); parses: Program(record)
\* returns rather than raises.  "early" and "late" both contain Epoch, "past"
\* and "soon" do not.
Prog(id, a, b, parses) == [id |-> id, startTime |-> a, endTime |-> b, parses |-> parses]
ProgramRecords ==
    { Prog("past", (Epoch - 3600) * 1000, (Epoch - 1800) * 1000, TRUE),
      Prog("early", (Epoch - 1800) * 1000, Epoch * 1000, TRUE),
      Prog("late", Epoch * 1000, (Epoch + 1800) * 1000, TRUE),
      Prog("soon", (Epoch + 1800) * 1000, (Epoch + 3600) * 1000, TRUE),
      Prog("broken", (Epoch - 1800) * 1000, (Epoch + 1800) * 1000, FALSE),
      Prog("untimed", MISSING, (Epoch + 1800) * 1000, TRUE) }
\* A row of the guide response: 'channelId' (NONE: the key is missing) and
\* 'programs'.
Row(cid, programs) == [channelId |-> cid, programs |-> programs]

\* lines 606-610: the rows of one day's response go into `programs`; a row
\* without 'channelId' raises KeyError, which ends the day.
RECURSIVE add_rows(_, _)
add_rows(programs, rows) ==
    IF rows = <<>> THEN programs
    ELSE LET row == Head(rows)
             cid == row.channelId
         IN  IF cid = NONE THEN programs
             ELSE add_rows([c \in DOMAIN programs \cup {cid} |->
                              IF c = cid
                              THEN (IF cid \in DOMAIN programs THEN programs[cid] ELSE <<>>)
                                   \o row.programs
                              ELSE programs[c]],
                           Tail(rows))

\* lines 594-598: the window asked for, <<start_time, end_time>> in
\* milliseconds, or <<>> when start is None or 0.
window(start) == IF start # 0 THEN <<start * 1000, (start + DAY) * 1000>> ELSE <<>>
cursor_stuck(start) == start
cursor(start) == IF start # 0 THEN start + DAY ELSE start

\* lines 600-612: one day's request inside try/except.  raised: an
\* exception leaves the block.
guide_day_raising(programs, reply) ==
    [raised |-> ~reply.ok,
     programs |-> IF reply.ok THEN add_rows(programs, reply.data) ELSE programs]
guide_day(programs, reply) ==
    [raised |-> FALSE,
     programs |-> IF reply.ok THEN add_rows(programs, reply.data) ELSE programs]

\* FrndlyTV.guide: the days that are left.  replies: what _request gives on
\* each of them; asked: the windows requested so far.
RECURSIVE guide_days(_, _, _, _)
guide_days(programs, start, replies, asked) ==
    IF replies = <<>> THEN [raised |-> FALSE, programs |-> programs, asked |-> asked]
    ELSE LET D == guide_day(programs, Head(replies))
             sofar == Append(asked, window(start))
         IN  IF D.raised THEN [raised |-> TRUE, programs |-> D.programs, asked |-> sofar]
             ELSE guide_days(D.programs, cursor(start), Tail(replies), sofar)

\* FrndlyTV.guide(channel_ids, start, days), with days = Len(replies) and
\* start = 0 for None.
guide(start, replies) == guide_days(<<>>, start, replies, <<>>)

\* Program(record): its window in milliseconds (0, 0 when a marker does not
\* convert), or an exception.
Program(rec) ==
    IF ~rec.parses THEN [raised |-> TRUE, id |-> rec.id, start |-> 0, end |-> 0]
    ELSE IF rec.startTime = MISSING \/ rec.endTime = MISSING
    THEN [raised |-> FALSE, id |-> rec.id, start |-> 0, end |-> 0]
    ELSE [raised |-> FALSE, id |-> rec.id, start |-> rec.startTime, end |-> rec.endTime]

\* lines 625-634: the scan of one channel's records from index i (1-based),
\* with what was found so far.  An exception in the try block, also the one
\* raised while parsing the next record, goes on to the next index.
scan_stops(programs, i, cur) ==
    LET prog == Program(programs[i])
    IN  /\ ~prog.raised /\ prog.start <= cur * 1000 /\ cur * 1000 <= prog.end
        /\ (i + 1 <= Len(programs) => ~Program(programs[i + 1]).raised)
RECURSIVE scan(_, _, _, _)
scan(programs, i, cur, found) ==
    IF i > Len(programs) THEN found
    ELSE LET prog == Program(programs[i])
             here == ~prog.raised /\ prog.start <= cur * 1000 /\ cur * 1000 <= prog.end
             nxt == IF here /\ i + 1 <= Len(programs) /\ ~Program(programs[i + 1]).raised
                    THEN <<Program(programs[i + 1])>>
                    ELSE found.next_up
             now_found == [current |-> IF here THEN <<prog>> ELSE found.current,
                           next_up |-> nxt]
         IN  IF scan_stops(programs, i, cur) THEN now_found
             ELSE scan(programs, i + 1, cur, now_found)

\* FrndlyTV.get_current_programs(channel_ids) at clock reading cur, reply
\* being what _request gives the guide call.  current and next_up map a
\* channel to <<program>>, or to <<>> when the channel has no entry.
get_current_programs(reply, cur) ==
    LET G == guide(0, <<reply>>)
        found == [c \in DOMAIN G.programs |->
                    scan(G.programs[c], 1, cur, [current |-> <<>>, next_up |-> <<>>])]
    IN  [current |-> [c \in DOMAIN found |-> found[c].current],
         next_up |-> [c \in DOMAIN found |-> found[c].next_up],
         asked |-> G.asked]

\* Answers to one day's guide request.
ProgA == Prog("late", Epoch * 1000, (Epoch + 1800) * 1000, TRUE)
ProgB == Prog("soon", (Epoch + 1800) * 1000, (Epoch + 3600) * 1000, TRUE)
DayAnswers ==
    { Raised(generic_error(GuideUrl)), Raised("Session expired"),
      Returned(<<>>),
      Returned(<<Row("12", <<ProgA>>)>>),
      Returned(<<Row("12", <<ProgB>>), Row("34", <<ProgA, ProgB>>)>>),
      Returned(<<Row("34", <<>>), Row(NONE, <<ProgA>>), Row("12", <<ProgA>>)>>) }
RECURSIVE Tuples(_, _)
Tuples(S, n) == IF n = 0 THEN {<<>>} ELSE {Append(t, x) : t \in Tuples(S, n - 1), x \in S}
GuideArgs ==
    { [op |-> "guide", start |-> st, replies |-> rs] :
        st \in {0, Epoch}, rs \in UNION {Tuples(DayAnswers, n) : n \in 0..MaxDays} }
CurrentArgs ==
    { [op |-> "get_current_programs", reply |-> r] :
        r \in {Raised(generic_error(GuideUrl))}
              \cup {Returned(<<Row("12", ps)>>) : ps \in SeqsUpTo(ProgramRecords, MaxPrograms)}
              \cup {Returned(<<Row("34", <<ProgA>>), Row("12", ps)>>) :
                      ps \in SeqsUpTo(ProgramRecords, MaxPrograms)} }

Guide ==
    /\ ~Called /\ arg.op = "guide"
    /\ res' = [op |-> "guide", out |-> guide(arg.start, arg.replies)]
    /\ UNCHANGED rest

GetCurrentPrograms ==
    /\ ~Called /\ arg.op = "get_current_programs"
    /\ res' = [op |-> "get_current_programs", out |-> get_current_programs(arg.reply, now)]
    /\ UNCHANGED rest

\* The guide operations, one call per behaviour.
InitGuide == InitClient /\ arg \in GuideArgs \cup CurrentArgs
NextGuide ==
    \/ Guide
    \/ GetCurrentPrograms
SpecGuide == InitGuide /\ [][NextGuide]_vars

\* ----------------------------------------------------------------- Program
\* Longest programme window tried, in clock units.
MaxSpan == 3
\* Program.start_time and Program.end_time: 0 (nothing parsed) or a reading
\* within MaxSpan of Epoch; time.time(): a reading around them.
WindowTimes == {0} \cup (Epoch..(Epoch + MaxSpan))
ClockTimes == (Epoch - 1)..(Epoch + MaxSpan + 1)

\* Program.get_progress at clock reading cur_time.  The quotient is taken
\* exactly; int() truncates.
get_progress(start_time, end_time, cur_time) ==
    LET returns(v) == [raised |-> FALSE, err |-> "", value |-> v]
    IN  IF start_time = 0 \/ end_time = 0 THEN returns(0)
        ELSE IF cur_time < start_time THEN returns(0)
        ELSE IF cur_time > end_time THEN returns(100)
        ELSE IF end_time - start_time = 0
        THEN [raised |-> TRUE, err |-> "ZeroDivisionError", value |-> 0]
        ELSE returns(((cur_time - start_time) * 100) \div (end_time - start_time))

ProgressArgs ==
    { [op |-> "get_progress", start_time |-> a, end_time |-> b, cur_time |-> t] :
        a \in WindowTimes, b \in WindowTimes, t \in ClockTimes }

GetProgress ==
    /\ ~Called /\ arg.op = "get_progress"
    /\ res' = [op |-> "get_progress",
               out |-> get_progress(arg.start_time, arg.end_time, arg.cur_time)]
    /\ UNCHANGED rest

\* Largest season and episode number tried.
MaxNumber == 10

\* int() of a quotient of integers: rounding is toward zero.
trunc_div(x, d) == IF x >= 0 THEN x \div d ELSE -((-x) \div d)

\* Values of markers['startTime']['value'] and markers['endTime']['value']:
\* milliseconds, 0 as well when the marker is missing, MISSING when int()
\* rejects the value.
MarkerValues ==
    {MISSING, Epoch * 1000 + 500} \cup {t * 1000 : t \in WindowTimes}
\* time.time() in thousandths of a second.
ClockMillis == {t * 1000 : t \in ClockTimes} \cup {Epoch * 1000 + 500}

\* Program._parse, lines 117-125.  start_time and end_time are kept in
\* thousandths of a second (the code holds them as float seconds); duration
\* is in whole seconds.
parse_times(startTime, endTime) ==
    IF startTime = MISSING \/ endTime = MISSING
    THEN [start_time |-> 0, end_time |-> 0, duration |-> 0]
    ELSE [start_time |-> startTime, end_time |-> endTime,
          duration |-> trunc_div(endTime - startTime, 1000)]

\* Text is a sequence of characters.
Digits == <<"0", "1", "2", "3", "4", "5", "6", "7", "8", "9">>
IsDigit(c) == \E i \in 1..Len(Digits) : Digits[i] = c
digit_value(c) == (CHOOSE i \in 1..Len(Digits) : Digits[i] = c) - 1
\* \d+ from position i: the position behind the longest run of digits.
RECURSIVE digits_end(_, _)
digits_end(s, i) ==
    IF i <= Len(s) /\ IsDigit(s[i]) THEN digits_end(s, i + 1) ELSE i
\* int() of the digits s[i..j-1].
RECURSIVE int_of(_, _, _)
int_of(s, i, j) ==
    IF j <= i THEN 0 ELSE int_of(s, i, j - 1) * 10 + digit_value(s[j - 1])
\* [Ss](\d+)[Ee](\d+) matched at position i.
match_at(s, i) ==
    LET a == digits_end(s, i + 1)
        b == digits_end(s, a + 1)
    IN  IF /\ s[i] \in {"S", "s"}
           /\ a > i + 1
           /\ a <= Len(s) /\ s[a] \in {"E", "e"}
           /\ b > a + 1
        THEN [found |-> TRUE, season |-> int_of(s, i + 1, a),
              episode |-> int_of(s, a + 1, b)]
        ELSE [found |-> FALSE, season |-> 0, episode |-> 0]
\* re.search: the leftmost match.
RECURSIVE search_from(_, _)
search_from(s, i) ==
    IF i > Len(s) THEN [found |-> FALSE, season |-> 0, episode |-> 0]
    ELSE IF match_at(s, i).found THEN match_at(s, i)
    ELSE search_from(s, i + 1)
search(s) == search_from(s, 1)

\* Python's `a or b` on the values of a metadata field: 0 stands for a
\* missing key, None, 0 and ''; MISSING for a text int() rejects.
either(a, b) == IF a # 0 THEN a ELSE b
\* int(x) if x else None, None on an exception; None is 0 here.
to_int(x) == IF x = MISSING THEN 0 ELSE x

\* Program._parse, lines 127-147, without the search of the title.
parse_episode_explicit_only(data) ==
    [season |-> to_int(either(data.seasonNumber, data.season)),
     episode |-> to_int(either(data.episodeNumber, data.episode))]
parse_episode(data) ==
    LET season == either(data.seasonNumber, data.season)
        episode == either(data.episodeNumber, data.episode)
        match == search(data.title \o <<" ">> \o data.subtitle)
    IN  IF (season = 0 \/ episode = 0) /\ match.found
        THEN [season |-> to_int(match.season), episode |-> to_int(match.episode)]
        ELSE [season |-> to_int(season), episode |-> to_int(episode)]

\* Program(data): the fields the model follows.
parse(data) ==
    LET T == parse_times(data.startTime, data.endTime)
        E == parse_episode(data)
    IN  [start_time |-> T.start_time, end_time |-> T.end_time, duration |-> T.duration,
         season |-> E.season, episode |-> E.episode]

\* n written with at least two digits.
RECURSIVE decimal(_)
decimal(n) == IF n < 10 THEN <<Digits[n + 1]>> ELSE decimal(n \div 10) \o <<Digits[(n % 10) + 1]>>
two_digits(n) == IF n < 10 THEN <<"0">> \o decimal(n) ELSE decimal(n)
\* The text S<ss>E<ee>.
Tag(s, e) == <<"S">> \o two_digits(s) \o <<"E">> \o two_digits(e)

\* Titles: a tag between some text before and some text behind it, or no
\* tag at all.
Before == { <<>>, <<"S", "h", "o", "w", " ">>, <<"S", "1", "E", "2", " ">> }
Behind == { <<>>, <<":", " ", "x">>, <<"7">> }
PlainTitle == <<"S", "h", "o", "w">>
TaggedTitles ==
    { p \o Tag(s, e) \o x : s \in 1..MaxNumber, e \in 1..MaxNumber, p \in Before, x \in Behind }
\* display and metadata of a programme record, as far as _parse reads them
\* here.
Record(a, b, sn, s, en, e, title, subtitle) ==
    [startTime |-> a, endTime |-> b, seasonNumber |-> sn, season |-> s,
     episodeNumber |-> en, episode |-> e, title |-> title, subtitle |-> subtitle]
\* Records that differ in their window, records that differ in their title
\* and records that differ in their metadata.
TimedRecords ==
    { Record(a, b, 0, 0, 0, 0, PlainTitle, <<>>) : a \in MarkerValues, b \in MarkerValues }
TitledRecords ==
    { Record(Epoch * 1000, (Epoch + 1) * 1000, 0, 0, 0, 0, t, <<>>) : t \in TaggedTitles }
NumberedRecords ==
    { Record(Epoch * 1000, (Epoch + 1) * 1000, sn, s, en, e, t, u) :
        sn \in {MISSING} \cup (0..MaxNumber), en \in {MISSING} \cup (0..MaxNumber),
        s \in {0, 2}, e \in {0, 2},
        t \in {PlainTitle, PlainTitle \o <<" ">> \o Tag(3, 4)},
        u \in {<<>>, Tag(5, 6)} }
ProgramArgs ==
    { [op |-> "Program", data |-> d, cur_time |-> t] :
        d \in TimedRecords, t \in ClockMillis }
    \cup { [op |-> "Program", data |-> d, cur_time |-> Epoch * 1000] :
             d \in TitledRecords \cup NumberedRecords }

\* Program(data), then get_progress() at clock reading cur_time.
NewProgram ==
    /\ ~Called /\ arg.op = "Program"
    /\ LET P == parse(arg.data)
       IN  res' = [op |-> "Program", out |-> P,
                   progress |-> get_progress(P.start_time, P.end_time, arg.cur_time)]
    /\ UNCHANGED rest

\* Programme records, one call per behaviour.
InitProgram == InitClient /\ arg \in ProgressArgs \cup ProgramArgs
NextProgram ==
    \/ GetProgress
    \/ NewProgram
SpecProgram == InitProgram /\ [][NextProgram]_vars

\* ---------------------------------------------------------------- playlist
\* Most channels of a channel list.
MaxChannels == 2

\* A channel of channels(): 'id' and display['title'] (NONE: the channel has
\* no 'display').
Channel(id, title) == [id |-> id, title |-> title]
ChannelSet == {Channel("1", "Hallmark"), Channel("2", "ION"), Channel("9", NONE)}
ChannelLists == SeqsUpTo(ChannelSet, MaxChannels)
\* live_map.get(id, {}): 'slug' (NONE: missing), 'chno' (0: missing or '')
\* and 'gracenote' (NONE: missing).
Mapping(slug, chno, gracenote) == [slug |-> slug, chno |-> chno, gracenote |-> gracenote]
NoMapping == Mapping(NONE, 0, NONE)
LiveMaps ==
    { [id \in {"1", "2", "9"} |-> NoMapping],
      [id \in {"1", "2", "9"} |->
         IF id = "1" THEN Mapping("hallmark", 5, "g1")
         ELSE IF id = "2" THEN Mapping(NONE, 0, "") ELSE NoMapping],
      [id \in {"1", "2", "9"} |->
         IF id = "1" THEN Mapping("hallmark", 0, NONE)
         ELSE IF id = "2" THEN Mapping("ion", 7, "g2") ELSE NoMapping],
      [id \in {"1", "2", "9"} |->
         IF id = "1" THEN Mapping("hallmark", 5, "g1")
         ELSE IF id = "2" THEN Mapping("ion", 7, "g2") ELSE NoMapping] }

\* Query parameters.  include, exclude: the text split at ','; gracenote:
\* the text, '' when absent; start_chno and days: absent, blank, the text of
\* an integer n, or some other text.
Absent == [kind |-> "absent", n |-> 0]
Blank == [kind |-> "blank", n |-> 0]
Text == [kind |-> "text", n |-> 0]
Number(n) == [kind |-> "int", n |-> n]
IncludeParams == { <<>>, <<"frndly-1">>, <<" FRNDLY-2 ", " ", "frndly-1">> }
ExcludeParams == { <<>>, <<"Frndly-2">> }
GracenoteParams == {"", "include", "exclude", " Include ", "all"}
StartChnoParams == {Absent, Blank, Text} \cup {Number(n) : n \in -1..MaxChannels}
Host == "kodi:8183"

\* str.lower().strip() on the texts of the query parameters.
lower_strip_param(x) ==
    IF x = " FRNDLY-2 " \/ x = "Frndly-2" THEN "frndly-2"
    ELSE IF x = " Include " THEN "include"
    ELSE IF x = " " THEN ""
    ELSE x
\* [x.lower().strip() for x in text.split(',') if x.strip()]
RECURSIVE id_list(_)
id_list(tokens) ==
    IF tokens = <<>> THEN <<>>
    ELSE IF lower_strip_param(Head(tokens)) = "" THEN id_list(Tail(tokens))
    ELSE <<lower_strip_param(Head(tokens))>> \o id_list(Tail(tokens))
In(x, list) == \E i \in 1..Len(list) : list[i] = x

\* What a handler has done when it is left: the status lines sent, the
\* lines written behind them, and the exception that leaves it, if any.
Line(kind, id, chno, gracenote_id, name, link) ==
    [kind |-> kind, id |-> id, chno |-> chno, gracenote_id |-> gracenote_id,
     name |-> name, url |-> link]
TextLine(text) == Line("text", "", 0, NONE, text, "")
Response(sent, body) == [sent |-> sent, body |-> body, raised |-> FALSE, err |-> ""]
Escaping(sent, body, err) == [sent |-> sent, body |-> body, raised |-> TRUE, err |-> err]
\* FrndlyRequestHandler._send_error
send_error(code, message) == Response(<<code>>, <<TextLine("Error: " \o message)>>)

\* The include list alone.
listed_out_include_only(channel_id, include, exclude) ==
    include # <<>> /\ ~In(channel_id, include)
\* line 247: the include and exclude lists.
listed_out(channel_id, include, exclude) ==
    \/ include # <<>> /\ ~In(channel_id, include)
    \/ exclude # <<>> /\ In(channel_id, exclude)
\* The gracenote filter left out.
gracenote_keeps_all(gracenote, gracenote_id) == FALSE
\* line 250 (and 312): the gracenote filter.
gracenote_out(gracenote, gracenote_id) ==
    \/ gracenote = "include" /\ ~Truthy(gracenote_id)
    \/ gracenote = "exclude" /\ Truthy(gracenote_id)

\* start_chno never read.
start_chno_ignored(p) == [raised |-> FALSE, none |-> TRUE, n |-> 0]
\* line 216.  none: start_chno is None.
start_chno_of(p) ==
    IF p.kind \in {"absent", "blank"} THEN [raised |-> FALSE, none |-> TRUE, n |-> 0]
    ELSE IF p.kind = "int" THEN [raised |-> FALSE, none |-> FALSE, n |-> p.n]
    ELSE [raised |-> TRUE, none |-> TRUE, n |-> 0]
ValueErrorMsg == "invalid literal for int() with base 10: 'abc'"
KeyErrorMsg == "'display'"

\* lines 232-269: the loop over the channels, from the channel list `channels`
\* on, start_chno being at n and `lines` written.
RECURSIVE playlist_loop(_, _, _, _, _)
playlist_loop(channels, live_map, q, n, lines) ==
    IF channels = <<>> THEN Response(<<200>>, lines)
    ELSE LET channel == Head(channels)
             channel_id == "frndly-" \o channel.id
             data == live_map[channel.id]
             slug == IF data.slug # NONE THEN data.slug \o "-" \o channel.id
                     ELSE channel.id
             play_url == "http://" \o Host \o "/play/" \o slug \o ".m3u8"
             numbered == ~q.start.none /\ n > 0
             chno == IF numbered THEN n ELSE data.chno
         IN  IF channel.title = NONE THEN Escaping(<<200>>, lines, KeyErrorMsg)
             ELSE IF \/ listed_out(channel_id, q.include, q.exclude)
                     \/ gracenote_out(q.gracenote, data.gracenote)
             THEN playlist_loop(Tail(channels), live_map, q, n, lines)
             ELSE playlist_loop(Tail(channels), live_map, q,
                                IF numbered THEN n + 1 ELSE n,
                                Append(lines, Line("EXTINF", channel_id, chno,
                                                   data.gracenote, channel.title, play_url)))

\* FrndlyRequestHandler._handle_playlist.  up.channels: what api.channels()
\* gives; up.live_map: what api.live_map() returns.
handle_playlist(api, up, params) ==
    IF ~api THEN send_error(500, "API not initialized")
    ELSE IF ~up.channels.ok THEN send_error(500, up.channels.err)
    ELSE LET start == start_chno_of(params.start_chno)
             q == [start |-> start, include |-> id_list(params.include),
                   exclude |-> id_list(params.exclude),
                   gracenote |-> lower_strip_param(params.gracenote)]
             epg_url == "http://" \o Host \o "/epg.xml"
                        \o (IF q.gracenote # "" THEN "?gracenote=" \o q.gracenote ELSE "")
         IN  IF start.raised THEN Escaping(<<>>, <<>>, ValueErrorMsg)
             ELSE playlist_loop(up.channels.data, up.live_map, q, start.n,
                                <<Line("EXTM3U", "", 0, NONE, "", epg_url)>>)

PlaylistParams ==
    [include : IncludeParams, exclude : ExcludeParams, gracenote : GracenoteParams,
     start_chno : StartChnoParams, days : {Absent}]
NoParams == [include |-> <<>>, exclude |-> <<>>, gracenote |-> "", start_chno |-> Absent,
             days |-> Absent]
PlaylistArgs ==
    { [op |-> "_handle_playlist", api |-> TRUE,
       up |-> [channels |-> Returned(c), live_map |-> m], params |-> p] :
        c \in ChannelLists, m \in LiveMaps, p \in PlaylistParams }
    \cup { [op |-> "_handle_playlist", api |-> a,
            up |-> [channels |-> r, live_map |-> m], params |-> NoParams] :
             a \in BOOLEAN, m \in LiveMaps,
             r \in {Returned(<<Channel("1", "Hallmark")>>),
                    Raised(generic_error(ChannelsUrl)), Raised(NoChannelsMsg)} }

HandlePlaylist ==
    /\ ~Called /\ arg.op = "_handle_playlist"
    /\ res' = [op |-> "_handle_playlist", out |-> handle_playlist(arg.api, arg.up, arg.params)]
    /\ UNCHANGED rest

\* --------------------------------------------------------------------- EPG
\* Values of the days parameter.
DaysParams == {Absent, Blank, Text} \cup {Number(n) : n \in (-1..8) \cup {10}}

\* min(max(n, 1), 7) without the upper limit.
clamp_from_below(n) == IF n < 1 THEN 1 ELSE n
\* line 280: min(max(n, 1), 7)
clamp(n) == IF n < 1 THEN 1 ELSE IF n > 7 THEN 7 ELSE n
\* lines 279-282: int() raises on a blank text and on one that is no integer.
epg_days(p) ==
    IF p.kind = "absent" THEN clamp(3)
    ELSE IF p.kind = "int" THEN clamp(p.n)
    ELSE 3

\* A programme record of the guide with display['title'] (NONE: null).
Titled(rec, title) ==
    [id |-> rec.id, startTime |-> rec.startTime, endTime |-> rec.endTime,
     parses |-> rec.parses, title |-> title]
EpgRecords ==
    { Titled(ProgA, "News"), Titled(ProgB, "Movie"),
      Titled(Prog("broken", (Epoch - 1800) * 1000, (Epoch + 1800) * 1000, FALSE), "Show"),
      Titled(Prog("untitled", Epoch * 1000, (Epoch + 1800) * 1000, TRUE), NONE) }
\* lines 335-382: escape(prog.title) raises on a title that is no text.
renders(rec) == rec.title # NONE

\* An element of the document: kind, the channel it belongs to and the
\* programme record it was made from.
XmlLine(kind, channel_id, prog) == Line(kind, channel_id, 0, NONE, prog, "")

\* lines 302-325: the loop over the channels.  ids: channel_ids.
RECURSIVE epg_channels(_, _, _, _, _)
epg_channels(channels, live_map, gracenote, ids, lines) ==
    IF channels = <<>> THEN [raised |-> FALSE, ids |-> ids, lines |-> lines]
    ELSE LET channel == Head(channels)
             channel_id == "frndly-" \o channel.id
             data == live_map[channel.id]
         IN  IF channel.title = NONE THEN [raised |-> TRUE, ids |-> ids, lines |-> lines]
             ELSE IF gracenote_out(gracenote, data.gracenote)
             THEN epg_channels(Tail(channels), live_map, gracenote, ids, lines)
             ELSE epg_channels(Tail(channels), live_map, gracenote,
                               Append(ids, channel.id),
                               Append(lines, Line("channel", channel_id, data.chno,
                                                  data.gracenote, channel.title, "")))

\* A programme that fails ends the loop over its channel's programmes.
RECURSIVE epg_programmes_until_failure(_, _, _)
epg_programmes_until_failure(channel_id, programs, lines) ==
    IF programs = <<>> THEN lines
    ELSE IF Program(Head(programs)).raised \/ ~renders(Head(programs)) THEN lines
    ELSE epg_programmes_until_failure(channel_id, Tail(programs),
                                      Append(lines, XmlLine("programme", channel_id,
                                                            Head(programs).id)))
\* lines 334-382: the loop over one channel's programmes; the block of a
\* programme is written in one piece, or not at all.
RECURSIVE epg_programmes(_, _, _)
epg_programmes(channel_id, programs, lines) ==
    IF programs = <<>> THEN lines
    ELSE IF Program(Head(programs)).raised \/ ~renders(Head(programs))
    THEN epg_programmes(channel_id, Tail(programs), lines)
    ELSE epg_programmes(channel_id, Tail(programs),
                        Append(lines, XmlLine("programme", channel_id, Head(programs).id)))

\* The keys of guide_data in the order guide() inserted them.
RECURSIVE keys_of_rows(_, _)
keys_of_rows(keys, rows) ==
    IF rows = <<>> \/ Head(rows).channelId = NONE THEN keys
    ELSE keys_of_rows(IF In(Head(rows).channelId, keys) THEN keys
                      ELSE Append(keys, Head(rows).channelId),
                      Tail(rows))
RECURSIVE keys_of_days(_, _)
keys_of_days(keys, replies) ==
    IF replies = <<>> THEN keys
    ELSE keys_of_days(IF Head(replies).ok THEN keys_of_rows(keys, Head(replies).data)
                      ELSE keys,
                      Tail(replies))
\* lines 331-382: the loop over guide_data.items().
RECURSIVE epg_guide(_, _, _)
epg_guide(keys, programs, lines) ==
    IF keys = <<>> THEN lines
    ELSE epg_guide(Tail(keys), programs,
                   epg_programmes("frndly-" \o Head(keys), programs[Head(keys)], lines))

\* What the upstream answers on the k-th day of a guide call.
Feeds == {"daily", "down", "late", "once"}
DayAnswer(feed, first, k) ==
    IF feed = "down" THEN Raised(generic_error(GuideUrl))
    ELSE IF feed = "late"
    THEN (IF k = 1 THEN Raised(generic_error(GuideUrl)) ELSE Returned(<<Row("1", first)>>))
    ELSE IF feed = "once"
    THEN (IF k = 1 THEN Returned(<<Row("2", <<Titled(ProgB, "Movie")>>), Row("1", first)>>)
          ELSE Returned(<<>>))
    ELSE Returned(<<Row("1", first)>>)

\* FrndlyRequestHandler._handle_epg at clock reading cur.  up.feed,
\* up.programs: what the upstream answers to the guide requests.  days: the
\* span asked of guide(), 0 when guide() is not called; asked: the windows it
\* requested.
handle_epg(api, up, params, cur) ==
    LET with(r, days, asked) ==
            [sent |-> r.sent, body |-> r.body, raised |-> r.raised, err |-> r.err,
             days |-> days, asked |-> asked]
    IN  IF ~api THEN with(send_error(500, "API not initialized"), 0, <<>>)
        ELSE IF ~up.channels.ok THEN with(send_error(500, up.channels.err), 0, <<>>)
        ELSE LET days == epg_days(params.days)
                 gracenote == lower_strip_param(params.gracenote)
                 C == epg_channels(up.channels.data, up.live_map, gracenote, <<>>,
                                   <<XmlLine("tv", "", "")>>)
                 replies == [k \in 1..days |-> DayAnswer(up.feed, up.programs, k)]
                 G == guide(cur, replies)
                 listed == IF G.raised THEN C.lines
                           ELSE epg_guide(keys_of_days(<<>>, replies), G.programs, C.lines)
             IN  IF C.raised THEN with(Escaping(<<200>>, C.lines, KeyErrorMsg), 0, <<>>)
                 ELSE IF C.ids = <<>>
                 THEN with(Response(<<200>>, Append(C.lines, XmlLine("end_tv", "", ""))),
                           0, <<>>)
                 ELSE with(Response(<<200>>, Append(listed, XmlLine("end_tv", "", ""))),
                           days, G.asked)

EpgParams ==
    [include : IncludeParams, exclude : ExcludeParams, gracenote : GracenoteParams,
     start_chno : {Absent}, days : {Absent}]
OneChannel == Returned(<<Channel("1", "Hallmark")>>)
EpgArgs ==
    { [op |-> "_handle_epg", api |-> TRUE,
       up |-> [channels |-> Returned(c), live_map |-> m, feed |-> "daily",
               programs |-> <<Titled(ProgA, "News")>>],
       params |-> p] :
        c \in ChannelLists, m \in LiveMaps, p \in EpgParams }
    \cup { [op |-> "_handle_epg", api |-> TRUE,
            up |-> [channels |-> OneChannel, live_map |-> [id \in {"1", "2", "9"} |-> NoMapping],
                    feed |-> f, programs |-> ps],
            params |-> [NoParams EXCEPT !.days = d]] :
             f \in Feeds, d \in DaysParams, ps \in SeqsUpTo(EpgRecords, 1) }
    \cup { [op |-> "_handle_epg", api |-> TRUE,
            up |-> [channels |-> OneChannel, live_map |-> [id \in {"1", "2", "9"} |-> NoMapping],
                    feed |-> f, programs |-> ps],
            params |-> [NoParams EXCEPT !.days = Number(1)]] :
             f \in Feeds, ps \in SeqsUpTo(EpgRecords, MaxPrograms) }
    \cup { [op |-> "_handle_epg", api |-> a,
            up |-> [channels |-> r, live_map |-> [id \in {"1", "2", "9"} |-> NoMapping],
                    feed |-> "daily", programs |-> <<>>],
            params |-> NoParams] :
             a \in BOOLEAN, r \in {OneChannel, Raised(generic_error(ChannelsUrl))} }

HandleEpg ==
    /\ ~Called /\ arg.op = "_handle_epg"
    /\ res' = [op |-> "_handle_epg", out |-> handle_epg(arg.api, arg.up, arg.params, now)]
    /\ UNCHANGED rest

\* ------------------------------------------------------------- front door
\* Request paths, and parsed.path.strip('/') on them.
OtherPaths == {"/", "/status", "/playlist.m3u8", "/playlist.m3u", "/epg.xml",
               "/keep_alive/", "/play", "/favicon.ico"}
strip_slashes(path) ==
    IF path = "/" THEN ""
    ELSE IF path = "/status" THEN "status"
    ELSE IF path = "/playlist.m3u8" THEN "playlist.m3u8"
    ELSE IF path = "/playlist.m3u" THEN "playlist.m3u"
    ELSE IF path = "/epg.xml" THEN "epg.xml"
    ELSE IF path = "/keep_alive/" THEN "keep_alive"
    ELSE IF path = "/play" THEN "play"
    ELSE IF path = "/favicon.ico" THEN "favicon.ico"
    ELSE IF path = "/play/12.m3u8" THEN "play/12.m3u8"
    ELSE IF path = "/play/hallmark-12.m3u8" THEN "play/hallmark-12.m3u8"
    ELSE "play/hallmark"
\* path.startswith('play/')
startswith_play(p) == p \in {"play/12.m3u8", "play/hallmark-12.m3u8", "play/hallmark"}
Routes == {"", "status", "playlist.m3u8", "playlist.m3u", "epg.xml", "keep_alive"}

\* FrndlyRequestHandler._handle_status
handle_status == Response(<<200>>, <<TextLine("<!DOCTYPE html>")>>)
\* FrndlyRequestHandler._handle_keep_alive.  outcome: "ok", or "raises"
\* when api.keep_alive() raises.
handle_keep_alive_raising(api, outcome) ==
    IF api /\ outcome = "raises" THEN Escaping(<<>>, <<>>, "keep_alive failed")
    ELSE Response(<<200>>, <<TextLine("OK")>>)
handle_keep_alive(api, outcome) == Response(<<200>>, <<TextLine("OK")>>)

\* do_GET, lines 70-74: the handler found in routes runs under try/except;
\* H is what the handler wrote and whether it raised.
run_handler(H) ==
    IF H.raised
    THEN Response(Append(H.sent, 500), Append(H.body, TextLine("Error: " \o H.err)))
    ELSE H

\* FrndlyRequestHandler.do_GET at clock reading cur.
do_GET(path, api, up, params, cur) ==
    LET p == strip_slashes(path)
        P == handle_play(api, path, up, cur)
        E == handle_epg(api, up, params, cur)
        H == IF p \in {"", "status"} THEN handle_status
             ELSE IF p \in {"playlist.m3u8", "playlist.m3u"}
             THEN handle_playlist(api, up, params)
             ELSE IF p = "epg.xml" THEN [sent |-> E.sent, body |-> E.body,
                                         raised |-> E.raised, err |-> E.err]
             ELSE handle_keep_alive(api, up.keep_alive)
    IN  IF startswith_play(p)
        THEN (IF P.escaped THEN Escaping(<<>>, <<>>, P.err)
              ELSE IF P.code = 302 THEN Response(<<302>>, <<>>)
              ELSE Response(<<P.code>>, <<TextLine(P.body)>>))
        ELSE IF p \in Routes
        THEN run_handler(H)
        ELSE send_error(404, "Not Found")

\* What the upstream does during one request.
Dash ==
    [streams |-> <<[url |-> "https://cdn/a.m3u8?t=1", licenseKey |-> NONE,
                    streamType |-> "dash"]>>,
     start |-> MISSING, poll_key |-> NONE]
Widevine ==
    [streams |-> <<[url |-> "https://cdn/a.m3u8?t=1", licenseKey |-> NONE,
                    streamType |-> "widevine"]>>,
     start |-> MISSING, poll_key |-> NONE]
GetReplies == {Returned(Dash), Returned(Widevine), Returned(NullTyped),
               Raised(generic_error(StreamUrl))}
GetUpstreams ==
    [channels : {OneChannel, Returned(<<Channel("9", NONE)>>),
                 Raised(generic_error(ChannelsUrl))},
     live_map : {[id \in {"1", "2", "9"} |-> NoMapping]},
     feed : {"daily"}, programs : {<<Titled(ProgA, "News")>>},
     keep_alive : {"ok", "raises"},
     first : {Returned(Dash)}, second : {Returned(Dash)},
     rows : {<<GuideRow((Epoch - 60) * 1000, (Epoch + 60) * 1000, "channel/live/12/now")>>},
     post : {"ok"}]
GetPlayUpstreams ==
    [channels : {OneChannel},
     live_map : {[id \in {"1", "2", "9"} |-> NoMapping]},
     feed : {"daily"}, programs : {<<Titled(ProgA, "News")>>},
     keep_alive : {"ok"},
     first : GetReplies, second : GetReplies,
     rows : {<<>>, <<GuideRow((Epoch - 60) * 1000, (Epoch + 60) * 1000,
                              "channel/live/12/now")>>},
     post : {"ok"}]
GetArgs ==
    { [op |-> "do_GET", path |-> pa, api |-> a, up |-> u, params |-> p] :
        pa \in OtherPaths, a \in BOOLEAN, u \in GetUpstreams,
        p \in {NoParams, [NoParams EXCEPT !.start_chno = Text]} }
    \cup { [op |-> "do_GET", path |-> pa, api |-> a, up |-> u, params |-> NoParams] :
             pa \in PlayPaths, a \in BOOLEAN, u \in GetPlayUpstreams }

DoGet ==
    /\ ~Called /\ arg.op = "do_GET"
    /\ res' = [op |-> "do_GET", out |-> do_GET(arg.path, arg.api, arg.up, arg.params, now)]
    /\ UNCHANGED rest

\* The web server's handlers, one request per behaviour.
InitWeb == InitClient /\ arg \in PlaylistArgs \cup EpgArgs \cup GetArgs
NextWeb ==
    \/ HandlePlaylist
    \/ HandleEpg
    \/ DoGet
SpecWeb == InitWeb /\ [][NextWeb]_vars

\* ------------------------------------------------------------- keep-alive
\* Sampled clock offsets around the session's age limit: their differences
\* cover 1, 18000 and 18001 seconds.
KeepOffsets == {0, 18000, 18001}
KeepTimes == {Epoch + o : o \in KeepOffsets}
AdvanceKeep == Advance(KeepTimes)
\* The clock moves past the age limit of whatever session there is.
AdvancePast == Advance({Epoch + 18001})

\* FrndlyTV.keep_alive, line 685: which of its two branches runs at clock
\* reading t.
keep_alive_branch(t) == IF (t - last_login) > FORCE_LOGIN THEN "login" ELSE "refresh"

\* FrndlyTV.keep_alive() called by `who`: login(), or the start of
\* channels(force_refresh=True).
keep_alive(who) ==
    /\ Idle
    /\ IF keep_alive_branch(now) = "login"
       THEN /\ \E o \in LoginRuns :
                 LET L == login(o, now)
                 IN  /\ hdr_session' = L.hdr_session
                     /\ last_login' = L.last_login
                     /\ file' = L.file
                     /\ ev' = WithLogin([NoEv EXCEPT !.op = who, !.how = "login",
                                            !.status = IF L.ok THEN "returned" ELSE "raised",
                                            !.err = L.err, !.upstream = L.upstream], L, o)
            /\ UNCHANGED control
       ELSE /\ pc' = "request"
            /\ caller' = who
            /\ url' = ChannelsUrl
            /\ attempt' = 0
            /\ ev' = [NoEv EXCEPT !.op = who, !.status = "running", !.how = "forced"]
            /\ UNCHANGED <<hdr_session, last_login, file>>
    /\ UNCHANGED <<instance, username, password, cache_path, channels_cache,
                   channels_cache_time, now>>

\* The background driver (FrndlyService.keep_alive) calls keep_alive().
KeepAlive ==
    /\ keep_alive("keep_alive")
    /\ UNCHANGED other

\* Nothing is written to the connection yet.
Pending == Response(<<>>, <<>>)
\* What GET /keep_alive answers once api.keep_alive() is over with `status`.
keep_alive_reply(api, status) ==
    LET p == strip_slashes("/keep_alive/")
    IN  IF ~startswith_play(p) /\ p \in Routes
        THEN run_handler(handle_keep_alive(api, IF status = "raised" THEN "raises"
                                                ELSE "ok"))
        ELSE send_error(404, "Not Found")

\* GET /keep_alive.
GetKeepAlive ==
    /\ pc = "idle"
    /\ IF instance
       THEN keep_alive("GET /keep_alive")
       ELSE /\ ev' = [NoEv EXCEPT !.op = "GET /keep_alive", !.how = "no_api"]
            /\ UNCHANGED <<instance, client, file, now, control>>
    /\ res' = [op |-> "GET /keep_alive", api |-> instance,
               out |-> IF ev'.status = "running" THEN Pending
                       ELSE keep_alive_reply(instance, ev'.status)]
    /\ UNCHANGED <<wk, hist, arg, web>>

\* One pass of the _request loop that keep_alive() started; the handler of
\* GET /keep_alive answers when its call is over.
KeepAliveAttempt ==
    /\ RequestLoop
    /\ res' = IF caller = "GET /keep_alive" /\ ev'.status # "running"
              THEN [res EXCEPT !.out = keep_alive_reply(TRUE, ev'.status)]
              ELSE res
    /\ UNCHANGED <<wk, hist, arg, web>>

\* FrndlyTV(username, password): a client that keeps no record file.
NewClient ==
    /\ ~instance /\ pc = "idle"
    /\ Construct(<<"alice", "pw1">>, FALSE, TRUE)
    /\ instance' = TRUE
    /\ UNCHANGED <<file, now, control, other>>

\* One client, its background driver and the keep_alive route, over the
\* long clock.
NextKeepAlive ==
    \/ AdvanceKeep
    \/ NewClient
    \/ KeepAlive
    \/ GetKeepAlive
    \/ KeepAliveAttempt
SpecKeepAlive == Init /\ [][NextKeepAlive]_vars

\* The operations that read or write the session, one at a time, on clients
\* made and restored over the same profile directory.
NextSequence ==
    \/ AdvancePast
    \/ ServiceStart
    \/ Login
    \/ Logout
    \/ KeepAlive
    \/ Request
    \/ Attempt
    \/ Restart
    \/ FileEdited
SpecSequence == Init /\ [][NextSequence]_vars

\* ----------------------------------------------------------- server lifecycle
\* Most servers and most clients made.
MaxServers == 3
MaxClients == 2
Ports == {8183, 8184}

\* webserver.is_running()
is_running(w) == w.server # 0 /\ w.thread # 0 /\ w.thread \in w.alive
\* webserver.stop_server(): shutdown() ends the serving thread and
\* server_close() closes the socket.
stop_server(w) ==
    IF w.server # 0
    THEN [w EXCEPT !.alive = @ \ {w.server},
                   !.listening = {l \in @ : l[1] # w.server},
                   !.server = 0, !.thread = 0]
    ELSE [w EXCEPT !.thread = 0]
\* webserver.start_server(port, api).  binds: the bind of the new socket
\* is not refused for a reason outside the program.  The new state and the
\* value returned.
start_server(w, port, api, binds) ==
    LET s == IF w.server # 0 THEN stop_server(w) ELSE w
        h == [s EXCEPT !.handler_api = api]
        n == h.made + 1
    IN  IF binds /\ ~\E l \in h.listening : l[2] = port
        THEN [w |-> [h EXCEPT !.made = n, !.server = n, !.thread = n,
                              !.alive = @ \cup {n},
                              !.listening = @ \cup {<<n, port>>}],
              returned |-> "True"]
        ELSE [w |-> h, returned |-> "False"]

\* The call `op` was made in state w and returned r.
called(w, op, r, after) ==
    [after EXCEPT !.last = [op |-> op, returned |-> r, was_running |-> is_running(w),
                            server |-> w.server, thread |-> w.thread,
                            alive |-> w.alive, listening |-> w.listening]]

\* FrndlyService.get_api()
get_api(w) ==
    IF w.service_api = 0 /\ w.credentials
    THEN [w EXCEPT !.clients = @ + 1, !.service_api = w.clients + 1]
    ELSE w
\* FrndlyService.start_server().  signin: "ok" when the client is logged in
\* or logs in, "fails" when login() raises.
service_start_server(w, signin, binds) ==
    LET a == get_api(w)
        S == start_server(a, a.server_port, a.service_api, binds)
    IN  IF ~w.enable_server THEN [w |-> w, returned |-> "False"]
        ELSE IF a.service_api = 0 THEN [w |-> a, returned |-> "False"]
        ELSE IF signin = "fails" THEN [w |-> a, returned |-> "False"]
        ELSE IF is_running(a) THEN [w |-> a, returned |-> "True"]
        ELSE IF S.returned = "True"
        THEN [w |-> [S.w EXCEPT !.server_running = TRUE], returned |-> "True"]
        ELSE [w |-> S.w, returned |-> "False"]
\* FrndlyService.stop_server()
service_stop_server(w) ==
    IF is_running(w) THEN [stop_server(w) EXCEPT !.server_running = FALSE] ELSE w
\* FrndlyService.onSettingsChanged(), the settings being as in w.
on_settings_changed(w, signin, binds) ==
    LET a == [w EXCEPT !.service_api = 0]
    IN  IF a.enable_server /\ ~is_running(a) THEN service_start_server(a, signin, binds).w
        ELSE IF ~a.enable_server /\ is_running(a) THEN service_stop_server(a)
        ELSE a

\* FrndlyService.keep_alive().  due: keep_alive_mins is positive and that
\* long has passed since the last successful call.
service_keep_alive(w, due) ==
    LET a == get_api(w)
    IN  IF a.service_api = 0 \/ ~due THEN a
        ELSE [a EXCEPT !.kept = a.service_api]

nonweb == <<instance, client, file, now, control, ev, wk, hist, arg, res>>

\* A caller of the webserver module starts a server for client `api`.
StartServer ==
    /\ web.made < MaxServers
    /\ \E port \in Ports, api \in 1..MaxClients, binds \in BOOLEAN :
         LET S == start_server(web, port, api, binds)
         IN  web' = called(web, "start_server", S.returned, S.w)
    /\ UNCHANGED nonweb

StopServer ==
    /\ web' = called(web, "stop_server", "None", stop_server(web))
    /\ UNCHANGED nonweb

\* serve_forever ends with an exception: the thread is over, the socket is
\* still open.
ThreadDies ==
    /\ is_running(web)
    /\ web' = called(web, "thread dies", "None", [web EXCEPT !.alive = @ \ {web.thread}])
    /\ UNCHANGED nonweb

ServiceStartServer ==
    /\ web.made < MaxServers /\ web.clients < MaxClients
    /\ \E signin \in {"ok", "fails"}, binds \in BOOLEAN :
         LET S == service_start_server(web, signin, binds)
         IN  web' = called(web, "FrndlyService.start_server", S.returned, S.w)
    /\ UNCHANGED nonweb

ServiceStopServer ==
    /\ web' = called(web, "FrndlyService.stop_server", "None", service_stop_server(web))
    /\ UNCHANGED nonweb

\* The main loop of the service calls its keep_alive().
ServiceKeepAlive ==
    /\ web.clients < MaxClients
    /\ \E due \in BOOLEAN :
         web' = called(web, "FrndlyService.keep_alive", "None", service_keep_alive(web, due))
    /\ UNCHANGED nonweb

\* The user edits the settings (changed: the username or the password is
\* not what it was); Kodi calls onSettingsChanged.
SettingsChanged ==
    /\ web.made < MaxServers /\ web.clients < MaxClients
    /\ \E e \in BOOLEAN, c \in BOOLEAN, port \in Ports, signin \in {"ok", "fails"},
          binds \in BOOLEAN, changed \in BOOLEAN :
         LET edited == [web EXCEPT !.enable_server = e, !.credentials = c,
                                    !.server_port = port,
                                    !.fresh_from = IF changed \/ c # web.credentials
                                                   THEN web.clients + 1 ELSE @]
         IN  web' = called(edited, "onSettingsChanged", "None",
                           on_settings_changed(edited, signin, binds))
    /\ UNCHANGED nonweb

\* The server's lifecycle.
NextServer ==
    \/ StartServer
    \/ StopServer
    \/ ThreadDies
    \/ ServiceStartServer
    \/ ServiceStopServer
    \/ ServiceKeepAlive
    \/ SettingsChanged
SpecServer == Init /\ [][NextServer]_vars

\* Every operation of the client, in one burst (at one clock reading).
Next ==
    \/ GetApiCreate
    \/ GetApiExisting
    \/ SetCredentials
    \/ Login
    \/ Logout
    \/ IsLoggedIn
    \/ Channels
    \/ Request
    \/ Attempt
    \/ Restart

Spec == Init /\ [][Next]_vars

\* The session manager alone, over the long clock.
NextSession ==
    \/ AdvanceLong
    \/ GetApiCreate
    \/ GetApiExisting
    \/ SetCredentials
    \/ Login
    \/ Logout
    \/ IsLoggedIn
    \/ Restart
    \/ FileEdited

SpecSession == Init /\ [][NextSession]_vars

\* The channel cache of one client, over the short clock.
NextCache ==
    \/ AdvanceShort
    \/ GetApiCreate
    \/ Logout
    \/ Channels
    \/ Attempt

SpecCache == Init /\ [][NextCache]_vars

\* ===================================================================== claims
\* The last step was a GET of _request answered by an upstream reply r.
Got(kinds) == ev.reply \in kinds
Got404 == ev.reply = "error" /\ ev.code = 404
GotOtherError == ev.reply \in {"error_nocode", "no_error"}
                    \/ (ev.reply = "error" /\ ev.code # 404)

\* C1: in _request, an error envelope with code 404 raises the domain error
\* carrying the upstream message at once: that iteration runs no login(), the
\* session is as it was, and the call is over (no further attempt).
C1_NotFoundIsTerminal ==
    Got404 =>
        /\ ev.status = "raised"
        /\ ev.err = (IF ev.message = NONE THEN "Unknown error" ELSE ev.message)
        /\ ev.login = "none"
        /\ ev.upstream = 1
        /\ pc = "idle"
\* A 404 with an upstream message arrives on the second attempt.
C1_Witness ==
    /\ Got404 /\ ev.gets = 2 /\ ev.status = "raised"
    /\ ev.err = "Channel not available in your region"

\* C2 as claimed: every upstream reply without a `response` payload that is
\* not a 404 error, on whichever attempt it arrives, triggers a forced
\* re-login after which the same call is issued again.  (Stated here for the
\* replies whose `error` member is missing or is a mapping, and for a
\* re-login that succeeds.)
C2_Original ==
    GotOtherError =>
        /\ ev.login # "none"
        /\ (ev.login = "ok" => ev.status = "running" /\ pc = "request")

\* C2 amended: a reply without a `response` payload that is not a 404 error
\* and whose `error` member is missing or is a mapping triggers a forced
\* re-login; when that login succeeds the same call is issued again unless
\* the attempt was the third, after which the generic failure is raised.  A
\* reply whose `error` member is not a mapping (or whose body is no object) is
\* handled as a transport failure: no re-login, and a retry while attempts
\* remain.
C2_ReloginThenRetry ==
    /\ GotOtherError =>
        /\ ev.login # "none"
        /\ (ev.login = "ok" /\ ev.gets < 3 =>
                ev.status = "running" /\ pc = "request" /\ attempt = ev.gets)
        /\ (ev.login = "ok" /\ ev.gets >= 3 =>
                ev.status = "raised" /\ ev.err = generic_error(ev.url) /\ pc = "idle")
    /\ Got({"error_not_mapping"}) =>
        /\ ev.login = "none"
        /\ (ev.gets < 3 => ev.status = "running" /\ pc = "request" /\ attempt = ev.gets)
        /\ (ev.gets >= 3 => ev.status = "raised" /\ ev.err = generic_error(ev.url))
\* A non-404 error on the third attempt: the re-login succeeds and the call
\* fails with the generic error without being issued again.
C2_Witness ==
    /\ GotOtherError /\ ev.gets = 3 /\ ev.login = "ok"
    /\ ev.status = "raised" /\ hdr_session = ev.bearer

\* C3: one _request call makes at most 3 attempts and is over after the
\* third; it sleeps only after a failed attempt that another attempt follows
\* (never after the last), and when the loop runs out (the third attempt
\* neither returned a payload nor raised a 404 or a login error) it raises
\* the generic failure naming the url, which it raises in no other case.
C3_BoundedAttempts ==
    /\ ev.gets <= 3
    /\ attempt < 3
    /\ (ev.gets >= 3 => ev.status # "running" /\ pc = "idle")
    /\ (ev.slept => /\ Got({"transport", "error_not_mapping"})
                    /\ ev.gets < 3 /\ ev.status = "running" /\ pc = "request")
    /\ (Got({"transport", "error_not_mapping"}) /\ ev.gets < 3 => ev.slept)
    /\ (ev.gets = 3 /\ ~Got({"response"}) /\ ~Got404 /\ ev.login # "failed" =>
            ev.status = "raised" /\ ev.err = generic_error(ev.url))
    /\ (ev.gets > 0 /\ ev.err = generic_error(ev.url) => ev.gets = 3)
\* Three transport failures in a row: the call has slept twice, does not sleep
\* after the third and raises the generic failure for the guide url.
C3_Witness ==
    /\ ev.gets = 3 /\ Got({"transport"}) /\ ~ev.slept
    /\ ev.status = "raised"
    /\ ev.err = "Failed to get response from: https://frndlytv-tvguideapi.revlet.net/service/api/v1/static/tvguide"

\* C4: is_logged_in() is true exactly when a session token is held and the
\* time since the login that acquired it is strictly less than 18000 s; the
\* call makes no upstream request and changes nothing.
C4_LoggedInIffFreshToken ==
    ev.op = "is_logged_in" =>
        /\ ev.value = << (hdr_session # NONE /\ now - last_login < 18000) >>
        /\ ev.upstream = 0
\* A token exactly 18000 s old: is_logged_in() is false.
C4_Witness ==
    /\ ev.op = "is_logged_in" /\ hdr_session # NONE
    /\ now - last_login = 18000 /\ ev.value = <<FALSE>>

\* C5: a client constructed over a readable session record restores the token
\* and the stored timestamp if and only if the token is non-empty and now
\* minus the stored timestamp is less than 18000 s; otherwise it holds no
\* token, last_login = 0 and is_logged_in() is false.
C5_RestoreIffFresh ==
    (ev.op = "construct" /\ cache_path /\ ev.readable /\ file.kind = "record") =>
        IF file.session_id \notin {NONE, ""} /\ now - file.last_login < 18000
        THEN /\ hdr_session = file.session_id
             /\ last_login = file.last_login
             /\ ev.how = "restored"
        ELSE /\ hdr_session = NONE
             /\ last_login = 0
             /\ ev.how = "fresh"
             /\ ~is_logged_in(now)
\* A record written 4 hours ago is restored.
C5_Witness ==
    /\ ev.op = "construct" /\ file.kind = "record"
    /\ now - file.last_login = 14400
    /\ hdr_session = file.session_id /\ last_login = file.last_login
    /\ hdr_session \in Tokens
\* A record written 6 hours ago is not restored.
C5_Rejected ==
    /\ ev.op = "construct" /\ cache_path /\ ev.readable /\ file.kind = "record"
    /\ file.session_id \in Tokens /\ now - file.last_login = 21600
    /\ hdr_session = NONE /\ last_login = 0

\* C6 as claimed: once the credentials of a client are replaced
\* (set_credentials, or get_api with a username and a password on the
\* existing instance), is_logged_in() is false.
C6_ReplacedCredentialsInvalidate ==
    (ev.op \in {"set_credentials", "get_api"} /\ ev.how = "replaced") =>
        ~(hdr_session # NONE /\ now - last_login < 18000)

\* C7: login() succeeds only when both handshake steps succeed, the sign-in
\* carrying the bootstrap token; when the credentials are missing or a step
\* fails it raises and leaves the token, last_login and the session record
\* exactly as they were.
C7_FailedLoginChangesNothing ==
    [][ /\ ev'.login = "failed" =>
            /\ hdr_session' = hdr_session
            /\ last_login' = last_login
            /\ file' = file
            /\ ev'.status = "raised" /\ ev'.err # ""
            /\ \/ ~Truthy(username) \/ ~Truthy(password)
               \/ ev'.token_step = "fail"
               \/ ev'.signin_step \in {"fail", "rejected"}
        /\ ev'.login = "ok" =>
            /\ Truthy(username) /\ Truthy(password)
            /\ ev'.token_step = "ok" /\ ev'.signin_step = "ok"
            /\ hdr_session' = ev'.bearer /\ ev'.bearer \in Tokens
            /\ last_login' = now
      ]_vars
\* The sign-in step is rejected while a session is held and persisted: the
\* session and its record are still there.
C7_Witness ==
    /\ ev.login = "failed" /\ ev.signin_step = "rejected"
    /\ hdr_session \in Tokens /\ ev.bearer # hdr_session
    /\ file = FileRecord(hdr_session, last_login)

\* C8: a failure to write the session record during login() does not fail
\* the login (token and last_login are updated, login returns), and a missing,
\* unreadable or corrupt record at construction yields a client without a
\* session and no exception.
C8_PersistenceIsAdvisory ==
    /\ (/\ ev.login # "none" /\ ev.token_step = "ok" /\ ev.signin_step = "ok"
        /\ ev.save \in {"open_fails", "write_fails"}) =>
            /\ ev.login = "ok"
            /\ hdr_session = ev.bearer /\ last_login = now
            /\ (ev.op = "login" => ev.status = "returned" /\ ev.err = "")
    /\ (/\ ev.op = "construct"
        /\ (~cache_path \/ ~ev.readable \/ file.kind \in {"absent", "corrupt"})) =>
            /\ ev.status = "returned"
            /\ hdr_session = NONE /\ last_login = 0
\* A login whose record write fails half-way: the login holds, the record is
\* unusable.
C8_Witness ==
    /\ ev.op = "login" /\ ev.login = "ok" /\ ev.save = "write_fails"
    /\ hdr_session = ev.bearer /\ hdr_session \in Tokens
    /\ file = FileCorrupt

\* C9 as claimed: after logout() no token is held, last_login is 0, the
\* channel cache is empty, is_logged_in() is false and a client constructed
\* afterwards over the same profile directory restores no session.
C9_LogoutDestroysSession ==
    ev.op = "logout" =>
        /\ hdr_session = NONE
        /\ last_login = 0
        /\ channels_cache = <<>>
        /\ ~is_logged_in(now)
        /\ ~load_session(cache_path, now, TRUE).restored

\* C10 as claimed: a channel-list fetch whose rows are all removed by the
\* banner filter raises the "not available in your region" error; channels()
\* never returns or caches an empty list.
C10_NoEmptyChannelList ==
    /\ channels_cache # << <<>> >>
    /\ (ev.op = "channels" /\ ev.status = "returned") => ev.value # << <<>> >>
    /\ (ev.op = "channels" /\ ev.how = "no_channels") => ev.err = NoChannelsMsg
\* C11: channels(force_refresh=False) returns the cached list, without an
\* upstream request, whenever the cache was filled less than 300 seconds ago.
\* The cache is filled when _channels_cache holds a list (is not None).
ChannelsCall == ev.op = "channels" /\ ev.gets = 0
C11_CachedWithinTtl ==
    (/\ ChannelsCall /\ ev.how # "forced"
     /\ channels_cache # <<>>
     /\ (now - channels_cache_time) < CACHE_TTL)
    => (/\ ev.how = "cached" /\ ev.status = "returned"
        /\ ev.value = channels_cache /\ ev.upstream = 0 /\ pc = "idle")

\* C11, the part the code keeps: a non-empty cached list younger than 300
\* seconds is returned without an upstream request.
C11_NonEmptyCachedWithinTtl ==
    (/\ ChannelsCall /\ ev.how # "forced"
     /\ channels_cache # <<>> /\ channels_cache[1] # <<>>
     /\ (now - channels_cache_time) < CACHE_TTL)
    => (/\ ev.how = "cached" /\ ev.status = "returned"
        /\ ev.value = channels_cache /\ ev.upstream = 0 /\ pc = "idle")

\* C11, second half: at 300 seconds or more, or with force_refresh, the call
\* goes upstream, and a successful refresh replaces the cached value and its
\* timestamp together.
C11_RefreshReplacesBoth ==
    /\ (ChannelsCall /\ (ev.how = "forced" \/ (now - channels_cache_time) >= CACHE_TTL))
       => (ev.status = "running" /\ pc = "request" /\ url = ChannelsUrl)
    /\ (ev.op = "channels" /\ ev.gets > 0 /\ ev.status = "returned")
       => (channels_cache = ev.value /\ channels_cache_time = now)

\* An empty list was cached a moment ago and the next plain call goes
\* upstream all the same.
C11_EmptyCacheRefetched ==
    /\ ChannelsCall /\ ev.how = "miss"
    /\ channels_cache = << <<>> >>
    /\ (now - channels_cache_time) < CACHE_TTL

\* C12: with handler threads calling channels() concurrently, the cached
\* value and the timestamp a thread reads at line 693 were written by the
\* same refresh.
C12_CachePairFromOneRefresh ==
    \A w \in Workers :
        (/\ wk[w].op = "channels" /\ Len(wk[w].seen) = 4
         /\ wk[w].seen[2] # 0 /\ wk[w].seen[4] # 0)
        => wk[w].seen[2] = wk[w].seen[4]

\* C13: while another thread runs login() or logout(), the token and the
\* timestamp that is_logged_in() reads belong to the same login.
C13_SessionPairFromOneLogin ==
    \A w \in Workers :
        (wk[w].op = "is_logged_in" /\ Len(wk[w].seen) = 3)
        => wk[w].seen[1] = wk[w].seen[3]

\* C14: after two threads ran login() concurrently and both returned, the
\* token and _last_login in memory come from the same login, and the record
\* file holds the token and the timestamp of a single login.
BothLoggedIn ==
    /\ \A w \in Workers : wk[w].op = "login" /\ wk[w].pc = "idle" /\ wk[w].ok
    /\ hist.nlogout = 0
C14_LastWriterWins ==
    BothLoggedIn
    => (/\ hdr_session = hist.login_by
        /\ file.kind = "record"
        /\ file.session_id = hist.file_by)

\* C15: when the selected variant of a resolution is widevine, play fails
\* with the unsupported-stream error: no further resolution is made for the
\* slug, and the play route answers 500 with that error, never 302.
DrmFirst(out) == Len(out.calls) >= 1 /\ out.calls[1].drm
C15_DrmRejectionIsFinal ==
    /\ (res.op = "play" /\ DrmFirst(res.out))
       => (/\ res.out.raised /\ res.out.err = res.out.calls[1].err
           /\ Len(res.out.calls) = 1 /\ res.out.guide = 0)
    /\ (res.op = "_handle_play" /\ DrmFirst(res.out))
       => (/\ res.out.code = 500 /\ res.out.body = "Error: " \o res.out.calls[1].err
           /\ res.out.location = NONE /\ Len(res.out.calls) = 1)

\* C15, what the code keeps: a widevine variant selected by the resolution of
\* the channel's guide path (the last one play can make) makes play raise the
\* unsupported-stream error and the route answer 500, and no path is resolved
\* twice.
DrmLast(out) ==
    /\ Len(out.calls) >= 1
    /\ out.calls[Len(out.calls)].drm
    /\ out.calls[Len(out.calls)].path = "channel/live/12/now"
C15_DrmOnGuidePath ==
    /\ (res.op = "play" /\ DrmLast(res.out))
       => (res.out.raised /\ res.out.err = res.out.calls[Len(res.out.calls)].err)
    /\ (res.op = "_handle_play" /\ DrmLast(res.out))
       => (res.out.code = 500 /\ res.out.location = NONE)
    /\ (res.op \in {"play", "_handle_play"} /\ Len(res.out.calls) = 2)
       => res.out.calls[1].path # res.out.calls[2].path

\* A widevine rejection on the slug path was followed by a resolution of the
\* channel's guide path, and the route redirected.
C15_FellBack ==
    /\ res.op = "_handle_play" /\ DrmFirst(res.out)
    /\ Len(res.out.calls) = 2 /\ res.out.code = 302

\* C16: _get_play_url takes the variant with the smallest license key (a
\* missing key counts as the empty string, ties keep the offered order),
\* returns that variant's url (the start offset appended when the descriptor
\* has one) and raises exactly when that variant's type, case-folded and
\* trimmed, is widevine.
KeyRank(v) == IF v.licenseKey \in {NONE, ""} THEN 1 ELSE 2
Selected(S) ==
    S[CHOOSE i \in 1..Len(S) :
        /\ \A j \in 1..Len(S) : KeyRank(S[i]) <= KeyRank(S[j])
        /\ \A j \in 1..(i - 1) : KeyRank(S[i]) < KeyRank(S[j])]
Offered == res.op = "_get_play_url" /\ arg.reply.ok /\ arg.reply.data.streams # <<>>
NotifyFails == Offered /\ arg.reply.data.poll_key # NONE /\ arg.post = "fails"
C17_NotificationIsBestEffort ==
    NotifyFails
    => (/\ res.out.raised => res.out.drm
        /\ ~res.out.drm
           => (/\ ~res.out.raised /\ res.out.posted
               /\ res.out.url = get_play_url(arg.path, arg.reply, "ok").url))

C17_Witness ==
    /\ NotifyFails /\ ~res.out.raised /\ res.out.posted
    /\ res.out.url = "https://cdn/a.m3u8?t=1&start=5&startTime=5"

\* C18: guide does not raise because a day's request failed: every day is
\* requested, the failing days add nothing, and the programmes of the other
\* days are returned.
OkOnly(replies) == SelectSeq(replies, LAMBDA r : r.ok)
C18_FailedDayIsSkipped ==
    res.op = "guide"
    => (/\ ~res.out.raised
        /\ Len(res.out.asked) = Len(arg.replies)
        /\ res.out.programs = guide(arg.start, OkOnly(arg.replies)).programs)

\* The first of two days fails and the second day's programmes come back.
C18_Witness ==
    /\ res.op = "guide" /\ Len(arg.replies) = 2
    /\ ~arg.replies[1].ok /\ arg.replies[2].ok
    /\ Len(res.out.asked) = 2
    /\ DOMAIN res.out.programs = {"12"} /\ res.out.programs["12"] = <<ProgA>>

\* C19: get_current_programs makes one guide request; for every channel the
\* current programme is the first entry whose window contains the current
\* time, the next one is the entry right after it (none if it is the last or
\* does not parse), and there is no next without a current.
Fetched == guide(0, <<arg.reply>>).programs
Contains(rec) ==
    LET prog == Program(rec)
    IN  ~prog.raised /\ prog.start <= now * 1000 /\ now * 1000 <= prog.end
FirstCurrent(ps) ==
    IF \E i \in 1..Len(ps) : Contains(ps[i])
    THEN CHOOSE i \in 1..Len(ps) : Contains(ps[i]) /\ \A j \in 1..(i - 1) : ~Contains(ps[j])
    ELSE 0
C19_CurrentAndNext ==
    res.op = "get_current_programs"
    => (/\ Len(res.out.asked) = 1
        /\ DOMAIN res.out.current = DOMAIN Fetched
        /\ \A c \in DOMAIN Fetched :
             LET ps == Fetched[c]
                 i == FirstCurrent(ps)
             IN  /\ res.out.current[c] = IF i = 0 THEN <<>> ELSE <<Program(ps[i])>>
                 /\ res.out.next_up[c] = IF i = 0 \/ i = Len(ps) THEN <<>>
                                         ELSE IF Program(ps[i + 1]).raised THEN <<>>
                                         ELSE <<Program(ps[i + 1])>>
                 /\ res.out.next_up[c] # <<>> => res.out.current[c] # <<>>)

\* C19 for guides whose records all parse.
C19_WhenAllParse ==
    (/\ res.op = "get_current_programs"
     /\ \A c \in DOMAIN Fetched : \A i \in 1..Len(Fetched[c]) : Fetched[c][i].parses)
    => C19_CurrentAndNext

\* The record after the current programme does not parse, the scan goes on,
\* and a later entry replaces the current programme.
C19_CurrentOverwritten ==
    /\ res.op = "get_current_programs" /\ "12" \in DOMAIN Fetched
    /\ Len(Fetched["12"]) = 3
    /\ Contains(Fetched["12"][1]) /\ ~Fetched["12"][2].parses
    /\ res.out.current["12"] = <<Program(Fetched["12"][3])>>

\* C20: get_progress returns an integer from 0 to 100: 0 before the start,
\* 100 after the end, the linear interpolation in between, and 0 rather than
\* a ZeroDivisionError for a window of length zero, also at that very instant.
Timed == arg.start_time # 0 /\ arg.end_time # 0
C20_ProgressInRange ==
    res.op = "get_progress"
    => (/\ ~res.out.raised
        /\ res.out.value \in 0..100
        /\ (Timed /\ arg.cur_time < arg.start_time) => res.out.value = 0
        /\ (Timed /\ arg.cur_time > arg.end_time /\ arg.cur_time >= arg.start_time)
           => res.out.value = 100
        /\ (/\ Timed /\ arg.start_time < arg.end_time
            /\ arg.start_time <= arg.cur_time /\ arg.cur_time <= arg.end_time)
           => res.out.value = ((arg.cur_time - arg.start_time) * 100)
                              \div (arg.end_time - arg.start_time)
        /\ (arg.start_time = arg.end_time /\ arg.cur_time = arg.start_time)
           => res.out.value = 0)

\* C20 away from the one instant of a zero-length window.
C20_ExceptAtTheInstant ==
    ~(Timed /\ arg.start_time = arg.end_time /\ arg.cur_time = arg.start_time)
    => C20_ProgressInRange

\* C21: a programme record whose window is inverted (end before start) or of
\* length zero parses to duration 0, and get_progress returns 0 for it at
\* every current time.
Degenerate ==
    /\ arg.data.startTime # MISSING /\ arg.data.endTime # MISSING
    /\ arg.data.endTime <= arg.data.startTime
C21_DegenerateWindowIsZero ==
    (res.op = "Program" /\ Degenerate)
    => (/\ res.out.duration = 0
        /\ ~res.progress.raised
        /\ res.progress.value = 0)

\* What the code does with such a window: the duration is the (negative)
\* difference in whole seconds, and progress is 0 before the start and 100
\* from the start on, but for the instant of a window of length zero.
C21_PassedThrough ==
    (res.op = "Program" /\ Degenerate)
    => (/\ res.out.duration = trunc_div(arg.data.endTime - arg.data.startTime, 1000)
        /\ (arg.data.startTime = 0 \/ arg.data.endTime = 0) => res.progress.value = 0
        /\ (arg.data.startTime # 0 /\ arg.data.endTime # 0)
           => IF arg.cur_time < arg.data.startTime THEN res.progress.value = 0
              ELSE IF arg.cur_time > arg.data.endTime THEN res.progress.value = 100
              ELSE res.progress.raised)
C21_InvertedWindow ==
    /\ res.op = "Program" /\ Degenerate
    /\ res.out.duration < 0 /\ res.progress.value = 100

\* C22: for every season s >= 1 and episode e >= 1, a record with no
\* explicit fields whose title contains the text S<ss>E<ee> parses to the
\* same (season, episode) as a record with explicit season s and episode e.
Unnumbered ==
    /\ arg.data.seasonNumber = 0 /\ arg.data.season = 0
    /\ arg.data.episodeNumber = 0 /\ arg.data.episode = 0
Explicit(s, e) ==
    parse(Record(arg.data.startTime, arg.data.endTime, s, 0, e, 0, PlainTitle, <<>>))
SameAsExplicit(s, e) ==
    /\ Explicit(s, e).season = s /\ Explicit(s, e).episode = e
    /\ res.out.season = Explicit(s, e).season
    /\ res.out.episode = Explicit(s, e).episode
C22_TitleContainingTag ==
    (res.op = "Program" /\ Unnumbered)
    => \A s \in 1..MaxNumber, e \in 1..MaxNumber, p \in Before, x \in Behind :
         arg.data.title = p \o Tag(s, e) \o x => SameAsExplicit(s, e)

\* C22 for titles in which no S<digits>E<digits> stands before the text and
\* no digit follows it.
C22_TitleWhoseFirstTagItIs ==
    (res.op = "Program" /\ Unnumbered)
    => \A s \in 1..MaxNumber, e \in 1..MaxNumber, p \in Before, x \in Behind :
         (/\ arg.data.title = p \o Tag(s, e) \o x
          /\ ~search(p).found
          /\ (x = <<>> \/ ~IsDigit(x[1])))
         => SameAsExplicit(s, e)
C22_Witness ==
    /\ res.op = "Program" /\ Unnumbered
    /\ arg.data.title = <<"S", "h", "o", "w", " ">> \o Tag(MaxNumber, 5) \o <<":", " ", "x">>
    /\ res.out.season = MaxNumber /\ res.out.episode = 5

\* The channels of the list a successful playlist gives an #EXTINF line, and
\* the playlist of the same request with another gracenote parameter.
Emitted(out) == { out.body[i].id : i \in {j \in 1..Len(out.body) : out.body[j].kind = "EXTINF"} }
Served == res.op = "_handle_playlist" /\ ~res.out.raised /\ res.out.sent = <<200>>
WithGracenote(g) == handle_playlist(arg.api, arg.up, [arg.params EXCEPT !.gracenote = g])
ListIds == { "frndly-" \o arg.up.channels.data[i].id : i \in 1..Len(arg.up.channels.data) }
HasGuideId(channel_id) ==
    \E i \in 1..Len(arg.up.channels.data) :
        /\ channel_id = "frndly-" \o arg.up.channels.data[i].id
        /\ Truthy(arg.up.live_map[arg.up.channels.data[i].id].gracenote)

\* C23: with gracenote=include the playlist holds exactly the channels that
\* have a non-empty external guide id, with gracenote=exclude exactly those
\* that have none; the two sets are disjoint and together they are the
\* channels of the otherwise unfiltered playlist.
C23_GracenotePartition ==
    Served
    => LET all == Emitted(WithGracenote(""))
           inc == Emitted(WithGracenote("include"))
           exc == Emitted(WithGracenote("exclude"))
       IN  /\ inc = {c \in all : HasGuideId(c)}
           /\ exc = {c \in all : ~HasGuideId(c)}
           /\ inc \cap exc = {}
           /\ inc \cup exc = all
           /\ (arg.params.include = <<>> /\ arg.params.exclude = <<>>) => all = ListIds
           /\ lower_strip_param(arg.params.gracenote) = "include" => Emitted(res.out) = inc
           /\ lower_strip_param(arg.params.gracenote) = "exclude" => Emitted(res.out) = exc
C23_Witness ==
    /\ Served /\ arg.params.gracenote = " Include "
    /\ Len(arg.up.channels.data) = 2
    /\ Emitted(res.out) = {"frndly-1"}
    /\ Emitted(WithGracenote("exclude")) = {"frndly-2"}

\* The channels of the list, in order, that pass the include, exclude and
\* gracenote filters of the request.
RECURSIVE Passing(_)
Passing(channels) ==
    IF channels = <<>> THEN <<>>
    ELSE LET channel_id == "frndly-" \o Head(channels).id
             gid == arg.up.live_map[Head(channels).id].gracenote
             g == lower_strip_param(arg.params.gracenote)
         IN  IF \/ id_list(arg.params.include) # <<>>
                   /\ ~In(channel_id, id_list(arg.params.include))
                \/ In(channel_id, id_list(arg.params.exclude))
                \/ g = "include" /\ ~Truthy(gid)
                \/ g = "exclude" /\ Truthy(gid)
             THEN Passing(Tail(channels))
             ELSE <<channel_id>> \o Passing(Tail(channels))
EpgPointer ==
    "http://" \o Host \o "/epg.xml"
    \o (IF lower_strip_param(arg.params.gracenote) = "" THEN ""
        ELSE "?gracenote=" \o lower_strip_param(arg.params.gracenote))

\* C24: a successful playlist response is one #EXTM3U directive, first,
\* whose x-tvg-url points at the EPG endpoint with the gracenote choice on
\* it, followed by exactly one #EXTINF entry per channel that passes the
\* include, exclude and gracenote filters, in channel-list order, none twice.
C24_DirectiveThenEntries ==
    Served
    => LET body == res.out.body
           pass == Passing(arg.up.channels.data)
       IN  /\ Len(body) = 1 + Len(pass)
           /\ body[1].kind = "EXTM3U" /\ body[1].url = EpgPointer
           /\ \A k \in 1..Len(pass) :
                body[k + 1].kind = "EXTINF" /\ body[k + 1].id = pass[k]
C24_Witness ==
    /\ Served /\ arg.params.gracenote = "exclude"
    /\ res.out.body[1].url = "http://kodi:8183/epg.xml?gracenote=exclude"
    /\ arg.params.include # <<>> /\ arg.params.exclude = <<>>
    /\ Len(arg.up.channels.data) = 2 /\ Len(res.out.body) = 3
    /\ res.out.body[2].id = "frndly-2" /\ res.out.body[3].id = "frndly-1"

\* The channel number of the mapping for the k-th entry of the playlist
\* (0: the entry carries no tvg-chno).
NaturalChno(k) ==
    LET i == CHOOSE i \in 1..Len(arg.up.channels.data) :
                 "frndly-" \o arg.up.channels.data[i].id = res.out.body[k + 1].id
    IN  arg.up.live_map[arg.up.channels.data[i].id].chno
Entries == 1..(Len(res.out.body) - 1)

\* C25: with start_chno = N the k-th emitted channel carries the number
\* N + k - 1, for every integer N the caller supplies; with no start_chno
\* each channel carries its natural number from the mapping.
C25_NumberedFromAnyStart ==
    Served
    => /\ arg.params.start_chno.kind = "int"
          => \A k \in Entries : res.out.body[k + 1].chno = arg.params.start_chno.n + k - 1
       /\ arg.params.start_chno.kind = "absent"
          => \A k \in Entries : res.out.body[k + 1].chno = NaturalChno(k)

\* C25 for N >= 1; with N <= 0, as with no or a blank start_chno, each
\* channel carries its natural number.
C25_NumberedFromPositiveStart ==
    Served
    => /\ (arg.params.start_chno.kind = "int" /\ arg.params.start_chno.n >= 1)
          => \A k \in Entries : res.out.body[k + 1].chno = arg.params.start_chno.n + k - 1
       /\ (\/ arg.params.start_chno.kind \in {"absent", "blank"}
           \/ arg.params.start_chno.kind = "int" /\ arg.params.start_chno.n <= 0)
          => \A k \in Entries : res.out.body[k + 1].chno = NaturalChno(k)
C25_Witness ==
    /\ Served /\ arg.params.start_chno = Number(2)
    /\ Len(res.out.body) = 3
    /\ res.out.body[2].chno = 2 /\ res.out.body[3].chno = 3
    /\ NaturalChno(1) = 7 /\ NaturalChno(2) = 5

\* The channels a served EPG document gives a <channel> block.
EpgServed == res.op = "_handle_epg" /\ ~res.out.raised /\ res.out.sent = <<200>>
Blocks(out) == { out.body[i].id : i \in {j \in 1..Len(out.body) : out.body[j].kind = "channel"} }

\* C26: for the same include, exclude and gracenote parameters and the same
\* channel list, the channels the EPG gives a <channel> block are the
\* channels the playlist gives an #EXTINF entry.
C26_SameChannelsAsPlaylist ==
    EpgServed => Blocks(res.out) = Emitted(handle_playlist(arg.api, arg.up, arg.params))

\* The two agree when the request names no include and no exclude list; the
\* EPG applies the gracenote filter alone.
C26_SameWithoutLists ==
    (EpgServed /\ id_list(arg.params.include) = <<>> /\ id_list(arg.params.exclude) = <<>>)
    => Blocks(res.out) = Emitted(handle_playlist(arg.api, arg.up, arg.params))
C26_ListsIgnored ==
    EpgServed
    => Blocks(res.out)
       = Blocks(handle_epg(arg.api, arg.up,
                           [arg.params EXCEPT !.include = <<>>, !.exclude = <<>>], now))

\* C27: the EPG asks the guide for clamp(days, 1, 7) days for every integer
\* days (10 gives 7, 0 gives 1, a negative value gives 1), and for 3 days
\* when days is absent or is not an integer.
Clamped(n) == IF n < 1 THEN 1 ELSE IF n > 7 THEN 7 ELSE n
Guided == EpgServed /\ Blocks(res.out) # {}
C27_DaysClamped ==
    Guided
    => /\ arg.params.days.kind = "int"
          => /\ res.out.days = Clamped(arg.params.days.n)
             /\ res.out.days \in 1..7
       /\ arg.params.days.kind # "int" => res.out.days = 3
       /\ Len(res.out.asked) = res.out.days
C27_Witness ==
    /\ Guided /\ arg.params.days = Number(10)
    /\ res.out.days = 7 /\ Len(res.out.asked) = 7
C27_WitnessLow ==
    /\ Guided /\ arg.params.days = Number(-1)
    /\ res.out.days = 1 /\ Len(res.out.asked) = 1

\* What the guide call of the request collected, and the programme blocks
\* the document holds for channel c.
Collected ==
    guide(now, [k \in 1..res.out.days |-> DayAnswer(arg.up.feed, arg.up.programs, k)]).programs
Fit(rec) == rec.parses /\ rec.title # NONE
RECURSIVE IdsOf(_)
IdsOf(programs) ==
    IF programs = <<>> THEN <<>> ELSE <<Head(programs).id>> \o IdsOf(Tail(programs))
RECURSIVE Programmes(_, _)
Programmes(body, c) ==
    IF body = <<>> THEN <<>>
    ELSE IF Head(body).kind = "programme" /\ Head(body).id = "frndly-" \o c
    THEN <<Head(body).name>> \o Programmes(Tail(body), c)
    ELSE Programmes(Tail(body), c)
Closed(body) ==
    /\ body[Len(body)].kind = "end_tv"
    /\ \A i \in 1..(Len(body) - 1) : body[i].kind # "end_tv"

\* C28: once the EPG response has started, a programme record that fails to
\* parse or to render is skipped and every other programme is still
\* emitted; the document always ends with the closing </tv>, also when the
\* guide fetch fails.
C28_FailedProgrammeSkipped ==
    EpgServed
    => /\ Closed(res.out.body)
       /\ \A c \in DOMAIN Collected :
            Programmes(res.out.body, c) = IdsOf(SelectSeq(Collected[c], Fit))
       /\ \A i \in 1..Len(res.out.body) :
            res.out.body[i].kind = "programme"
            => \E c \in DOMAIN Collected : res.out.body[i].id = "frndly-" \o c
C28_Witness ==
    /\ EpgServed /\ arg.up.feed = "once" /\ Len(arg.up.programs) = 3
    /\ ~arg.up.programs[1].parses /\ arg.up.programs[2].title = NONE
    /\ Fit(arg.up.programs[3])
    /\ Programmes(res.out.body, "1") = <<arg.up.programs[3].id>>
    /\ Programmes(res.out.body, "2") = <<"soon">>
    /\ Closed(res.out.body)
C28_GuideDown ==
    /\ EpgServed /\ arg.up.feed = "down" /\ res.out.days = 3
    /\ Closed(res.out.body) /\ Len(res.out.body) = 3

\* The exception raised while the request is handled ("" when there is
\* none): by the playlist or the EPG handler, or by api.play.
Route == strip_slashes(arg.path)
Failure ==
    IF startswith_play(Route)
    THEN (IF arg.api /\ play(slug_of(arg.path), arg.up, now).raised
          THEN play(slug_of(arg.path), arg.up, now).err ELSE "")
    ELSE IF Route \in {"playlist.m3u8", "playlist.m3u"}
    THEN handle_playlist(arg.api, arg.up, arg.params).err
    ELSE IF Route = "epg.xml" THEN handle_epg(arg.api, arg.up, arg.params, now).err
    ELSE ""
Answered(out, code, text) ==
    /\ ~out.raised /\ out.sent # <<>>
    /\ out.sent[Len(out.sent)] = code
    /\ out.body[Len(out.body)] = TextLine(text)

\* C29: on every route (status, playlist, EPG, play/<slug>, keep_alive) an
\* exception raised while the request is handled becomes a 500 response
\* with the error text; an unmatched path is answered 404; no exception
\* leaves the handler without a response.
C29_EveryFailureAnswered ==
    res.op = "do_GET"
    => /\ ~res.out.raised /\ res.out.sent # <<>>
       /\ Failure # "" => Answered(res.out, 500, "Error: " \o Failure)
       /\ (~startswith_play(Route) /\ Route \notin Routes)
          => res.out.sent = <<404>> /\ Answered(res.out, 404, "Error: Not Found")

\* C29 on the routes other than play/<slug>.
C29_OtherRoutes == (res.op = "do_GET" /\ ~startswith_play(Route)) => C29_EveryFailureAnswered
\* On play/<slug> an exception that is no FrndlyException leaves do_GET and
\* nothing is sent.
C29_PlayEscapes ==
    /\ res.op = "do_GET" /\ arg.path = "/play/12.m3u8" /\ arg.api
    /\ arg.up.second = Returned(NullTyped)
    /\ res.out.raised /\ res.out.sent = <<>> /\ res.out.err = NoLowerMsg
C29_ValueErrorAnswered ==
    /\ res.op = "do_GET" /\ arg.path = "/playlist.m3u8"
    /\ res.out.sent = <<500>> /\ Answered(res.out, 500, "Error: " \o ValueErrorMsg)

\* The last call left the server, its thread and the sockets as they were.
Untouched ==
    /\ web.server = web.last.server /\ web.thread = web.last.thread
    /\ web.alive = web.last.alive /\ web.listening = web.last.listening

\* C30: start_server called while a server is running is a no-op that
\* reports success: the running server, its listening socket and its thread
\* are untouched (no stop and restart, no second listener).
C30_StartWhileRunningIsNoOp ==
    (web.last.op = "start_server" /\ web.last.was_running)
    => (web.last.returned = "True" /\ Untouched)

\* The service's start_server leaves a running server alone.
C30_ServiceStartIsNoOp ==
    (web.last.op = "FrndlyService.start_server" /\ web.last.was_running) => Untouched
C30_Restarted ==
    /\ web.last.op = "start_server" /\ web.last.was_running
    /\ web.last.returned = "True"
    /\ web.server # web.last.server /\ web.last.server \notin web.alive
    /\ Cardinality(web.listening) = 1
C30_StoppedAndNotRestarted ==
    /\ web.last.op = "start_server" /\ web.last.was_running
    /\ web.last.returned = "False" /\ web.server = 0 /\ web.listening = {}

\* The messages login() raises with.
LoginErrors ==
    {"Username and password are required", "Failed to get session token",
     "Login request failed"}
    \cup {"Login failed: " \o (IF m = NONE THEN "Unknown login error" ELSE m) :
            m \in UpstreamMsgs}
\* The last step was an attempt of _request whose forced re-login failed.
ReloginFailed == ev.gets > 0 /\ ev.login = "failed"

C32_AttemptCarriesCurrentToken ==
    [][/\ (pc = "request" /\ ev'.gets = attempt + 1) => ev'.sent = hdr_session
       /\ (pc = "request" /\ ev.gets > 0 /\ ev.login = "ok" /\ ev'.gets = ev.gets + 1) =>
              /\ ev'.sent = ev.bearer
              /\ ev'.sent # ev.sent]_vars
\* A first attempt carried tokA and was rejected, the re-login acquired tokB,
\* the second attempt carried tokB and was answered with a payload.
C32_Witness ==
    /\ ev.gets = 2 /\ ev.first = "tokA" /\ ev.sent = "tokB"
    /\ ev.reply = "response" /\ ev.status = "returned"

\* The k-th window (k = 1..days) of a guide call that starts at `start`, in
\* milliseconds.
KthWindow(start, k) == <<(start + DAY * (k - 1)) * 1000, (start + DAY * k) * 1000>>
\* The rows of the days whose request succeeded, in day order; whole: every
\* row of such a day, else only the rows before the first row that has no
\* 'channelId'.
RECURSIVE WellFormedPrefix(_)
WellFormedPrefix(rows) ==
    IF rows = <<>> \/ Head(rows).channelId = NONE THEN <<>>
    ELSE <<Head(rows)>> \o WellFormedPrefix(Tail(rows))
RECURSIVE DayRows(_, _)
DayRows(replies, whole) ==
    IF replies = <<>> THEN <<>>
    ELSE (IF ~Head(replies).ok THEN <<>>
          ELSE IF whole THEN Head(replies).data
          ELSE WellFormedPrefix(Head(replies).data))
         \o DayRows(Tail(replies), whole)
\* The programmes that rows carry for channel c, in order.
RECURSIVE ProgramsOf(_, _)
ProgramsOf(c, rows) ==
    IF rows = <<>> THEN <<>>
    ELSE (IF Head(rows).channelId = c THEN Head(rows).programs ELSE <<>>)
         \o ProgramsOf(c, Tail(rows))
ChannelsIn(rows) == {rows[i].channelId : i \in 1..Len(rows)} \ {NONE}
GuideWithStart == res.op = "guide" /\ arg.start # 0
Windows ==
    /\ Len(res.out.asked) = Len(arg.replies)
    /\ \A k \in 1..Len(arg.replies) : res.out.asked[k] = KthWindow(arg.start, k)
    /\ \A k \in 1..(Len(arg.replies) - 1) : res.out.asked[k][2] = res.out.asked[k + 1][1]
Concatenated(rows) ==
    /\ DOMAIN res.out.programs = ChannelsIn(rows)
    /\ \A c \in ChannelsIn(rows) : res.out.programs[c] = ProgramsOf(c, rows)

C33_TwoDays ==
    /\ GuideWithStart /\ Len(arg.replies) = 2
    /\ res.out.programs = [c \in {"12", "34"} |->
                              IF c = "12" THEN <<ProgA, ProgB>> ELSE <<ProgA, ProgB>>]

\* The handler of GET /keep_alive has just finished.
KeepAliveServed == res.op = "GET /keep_alive" /\ ev.op = "GET /keep_alive" /\ pc = "idle"
Ok200 == Response(<<200>>, <<TextLine("OK")>>)
\* A GET /keep_alive arrives at a server that has a client.
KeepAliveArrives == pc = "idle" /\ instance /\ ev'.op = "GET /keep_alive" /\ ev' # ev

\* C34: GET /keep_alive runs one keep-alive check on the client - one
\* login() and no channel request when the session is older than 18000 s,
\* otherwise one channel request, which goes upstream also when the cached
\* list is still fresh - and answers 200 "OK" once, after the check, whether
\* the check returned or raised.
C34_KeepAliveRouteAnswers200 ==
    [][/\ KeepAliveArrives =>
            IF now - last_login > 18000
            THEN /\ ev'.login # "none" /\ ev'.gets = 0 /\ ev'.upstream <= 2
                 /\ pc' = "idle"
            ELSE /\ ev'.login = "none" /\ ev'.upstream = 0
                 /\ pc' = "request" /\ url' = ChannelsUrl /\ attempt' = 0
       /\ (pc = "request" /\ caller = "GET /keep_alive" /\ ev' # ev /\ now' = now) =>
            /\ ev'.gets = attempt + 1 /\ ev'.gets <= 3 /\ ev'.url = ChannelsUrl
            /\ (pc' = "request" => caller' = caller /\ attempt' = attempt + 1)
       /\ res'.op = "GET /keep_alive" =>
            /\ res'.out \in {Pending, Ok200}
            /\ (res'.out = Pending <=> (pc' = "request" /\ caller' = "GET /keep_alive"))
       /\ (res'.op = "GET /keep_alive" /\ ~res'.api /\ ev'.op = "GET /keep_alive") =>
            ev'.upstream = 0]_vars
\* The cached list is fresh and the session young; the forced refresh fails
\* on its third attempt and the route still answers 200.
C34_Witness ==
    /\ KeepAliveServed /\ res.api /\ cache_fresh(FALSE, now) /\ is_logged_in(now)
    /\ ev.gets = 3 /\ ev.status = "raised" /\ res.out = Ok200
\* The session is older than 5 hours, the re-login is rejected, the route
\* answers 200.
C34_ReloginRaises ==
    /\ KeepAliveServed /\ res.api
    /\ hdr_session # NONE /\ now - last_login > 18000
    /\ ev.login = "failed" /\ ev.status = "raised" /\ res.out = Ok200

\* The background driver calls keep_alive() on an idle client.
KeepAliveCalled == pc = "idle" /\ instance /\ ev'.op = "keep_alive" /\ ev' # ev
\* A token is held and is_logged_in() is false, which can only be for the
\* session's age.
Expired == hdr_session # NONE /\ ~is_logged_in(now)

\* C37: whenever a token is held and is_logged_in() is false because of the
\* session's age, an age of exactly 18000 s included, keep_alive() runs
\* login() and does not merely refresh the channel list.
C37_KeepAliveReloginsWhenExpired ==
    [][(KeepAliveCalled /\ Expired) => (ev'.login # "none" /\ ev'.gets = 0 /\ pc' = "idle")]_vars
\* The two agree at every age other than 18000 s.
C37_AgreeOffTheBoundary ==
    [][(KeepAliveCalled /\ hdr_session # NONE /\ now - last_login # 18000) =>
          (is_logged_in(now) <=> pc' = "request")]_vars
\* At an age of exactly 18000 s the session counts as expired and keep_alive()
\* has started a channel refresh with the old token.
C37_AtFiveHours ==
    /\ ev.op = "keep_alive" /\ ev.how = "forced" /\ pc = "request" /\ attempt = 0
    /\ hdr_session # NONE /\ now - last_login = 18000 /\ ~is_logged_in(now)

\* The season and the episode number that the explicit metadata fields give
\* (the first field, else the second); 0: neither gives one.
ExplicitSeason == either(arg.data.seasonNumber, arg.data.season)
ExplicitEpisode == either(arg.data.episodeNumber, arg.data.episode)

\* C35: the pattern in the title or subtitle is the last resort: a season
\* number that an explicit metadata field gives is the programme's season,
\* and an episode number that an explicit field gives is its episode, whatever
\* the title and the subtitle contain.
C35_ExplicitNumberKept ==
    res.op = "Program" =>
        /\ (ExplicitSeason >= 1 => res.out.season = ExplicitSeason)
        /\ (ExplicitEpisode >= 1 => res.out.episode = ExplicitEpisode)
\* It holds when the explicit fields give both numbers.
C35_KeptWhenBothGiven ==
    (res.op = "Program" /\ ExplicitSeason >= 1 /\ ExplicitEpisode >= 1) =>
        /\ res.out.season = ExplicitSeason
        /\ res.out.episode = ExplicitEpisode
\* seasonNumber is 2, no field gives the episode and the title reads
\* "Show S03E04": the programme's season is 3.
C35_SeasonReplaced ==
    /\ res.op = "Program"
    /\ arg.data.seasonNumber = 2 /\ ExplicitEpisode = 0
    /\ arg.data.title = PlainTitle \o <<" ">> \o Tag(3, 4) /\ arg.data.subtitle = <<>>
    /\ res.out.season = 3 /\ res.out.episode = 4

\* The status lines written to the connection of the request, in order.
StatusLines == res.out.sent

\* C36: a request gets one response status: when a handler has sent its 200
\* status line and headers, a failure while it writes the body does not put
\* a second status line on the connection.
C36_OneStatusPerRequest ==
    (res.op = "do_GET" /\ ~startswith_play(Route)) => Len(StatusLines) = 1
\* It holds for the requests whose handler does not fail after its 200.
C36_OneStatusUnlessBodyFails ==
    (res.op = "do_GET" /\ ~startswith_play(Route) /\ Len(StatusLines) > 1) =>
        /\ StatusLines = <<200, 500>>
        /\ Route \in {"playlist.m3u8", "playlist.m3u", "epg.xml"}
        /\ arg.api /\ arg.up.channels.ok
        /\ \E i \in 1..Len(arg.up.channels.data) : arg.up.channels.data[i].title = NONE
\* GET /playlist.m3u8 when the catalogue holds a channel without a title: 200
\* and the directive line are written, then a 500 status line and the error
\* text.
C36_SecondStatus ==
    /\ res.op = "do_GET" /\ Route = "playlist.m3u8"
    /\ StatusLines = <<200, 500>>
    /\ Len(res.out.body) = 2
    /\ res.out.body[2] = TextLine("Error: " \o KeyErrorMsg)

\* C38: whatever construct/restore, login (successful or failed), logout,
\* keep_alive and request operations have run one at a time, a session token
\* is held if and only if _last_login is greater than 0.
C38_TokenIffLoginTime == (hdr_session # NONE) <=> (last_login > 0)
\* A new client restored the session that an earlier client's keep_alive()
\* had renewed by a re-login.
C38_Witness ==
    /\ ev.op = "construct" /\ ev.how = "restored"
    /\ hdr_session = "tokB" /\ last_login = Epoch + 18001
\* A forced re-login inside _request has failed and the call has raised: the
\* token and its time are as before.
C38_AfterFailedRelogin ==
    /\ ev.op = "_request" /\ ev.login = "failed" /\ ev.status = "raised"
    /\ hdr_session # NONE /\ last_login > 0

\* A step of a channels() call that does not end it with a list: the start
\* of its _request, an attempt that another follows, or its raising.
RefreshNotDone == ev'.op = "channels" /\ ev' # ev /\ ev'.status # "returned"
CacheUntouched ==
    channels_cache' = channels_cache /\ channels_cache_time' = channels_cache_time
\* The call before raised, a list is cached and less than 300 s old, and
\* channels() is called again without force_refresh.
NextCallInWindow ==
    /\ ev.op = "channels" /\ ev.status = "raised" /\ pc = "idle"
    /\ channels_cache # <<>> /\ now - channels_cache_time < 300
    /\ ev'.op = "channels" /\ ev' # ev /\ ev'.how # "forced" /\ now' = now
ServedFromCache == ev'.how = "cached" /\ ev'.value = channels_cache /\ pc' = "idle"

\* C39: a channels() refresh that fails (its _request raising or running out
\* of attempts, or the empty-catalogue error) changes neither the cached list
\* nor its timestamp, so the next call without force_refresh within 300 s of
\* that timestamp returns the cached list.
C39_FailedRefreshKeepsCache ==
    [][/\ RefreshNotDone => CacheUntouched
       /\ NextCallInWindow => ServedFromCache]_vars
\* The cached list and its timestamp are as before.
C39_CacheUntouched == [][RefreshNotDone => CacheUntouched]_vars
\* A cached list that is not empty is returned by the next call.
C39_NonEmptyStillServed ==
    [][(NextCallInWindow /\ channels_cache[1] # <<>>) => ServedFromCache]_vars
\* A forced refresh has failed on its third attempt while an empty list was
\* cached at this very clock reading.
C39_EmptyListCached ==
    /\ ev.op = "channels" /\ ev.status = "raised" /\ ev.gets = 3
    /\ channels_cache = <<<<>>>> /\ channels_cache_time = now

\* The server the service started is running.
ServiceServes == web.server_running /\ is_running(web)

\* C40: while the server that the service started runs, the client its
\* request handlers use is built from the username and password as they are
\* now, also after onSettingsChanged, and it is the client on which the
\* background driver calls keep_alive().
C40_DriverAndServerShareClient ==
    /\ (ServiceServes /\ web.last.op = "onSettingsChanged") =>
          web.handler_api >= web.fresh_from
    /\ (ServiceServes /\ web.last.op = "FrndlyService.keep_alive" /\ web.kept # 0) =>
          web.kept = web.handler_api
\* As long as the service has built one client only, the two are the same.
C40_SharedWhileOneClient ==
    (ServiceServes /\ web.made = 1 /\ web.clients = 1 /\ web.kept # 0) =>
        web.kept = web.handler_api
\* The service started the only server there has been with its first client;
\* the credentials were changed while it ran; the driver has since built a
\* second client and keeps that one alive, the handlers still use the first.
C40_DriverOnNewClient ==
    /\ ServiceServes /\ web.made = 1 /\ web.last.op = "FrndlyService.keep_alive"
    /\ web.handler_api = 1 /\ web.fresh_from = 2 /\ web.service_api = 2 /\ web.kept = 2

====
